---- MODULE Spec2Model ----
(***************************************************************************)
(* Zone-based trajectory tagging engine of windows_slide_tagging.py.       *)
(*                                                                         *)
(* Conventions of the model                                                *)
(*   - Python None is the string "None"; a zone name or a tag is truthy    *)
(*     iff it differs from None.                                           *)
(*   - The three window tags of the source are CJK string literals; they   *)
(*     are written here in pinyin: TAG_RIGHT = "youzhuan" (U+53F3 U+8F49), *)
(*     TAG_LEFT = "zuozhuan" (U+5DE6 U+8F49), TAG_STRAIGHT = "zhixing"     *)
(*     (U+76F4 U+884C).                                                    *)
(*   - Coordinates are integer metres, headings integer degrees, speeds    *)
(*     and accelerations integer tenths (of m/s, m/s^2).  Comparisons of   *)
(*     the source on square roots and quotients are done on the squares    *)
(*     and cross-multiplied, so they are exact.                            *)
(*   - Sequences are 1-based: Python index k is index k+1 here; the frame  *)
(*     and window indices stored in records keep the Python (0-based)      *)
(*     values.                                                             *)
(***************************************************************************)
EXTENDS Integers, Sequences, FiniteSets, TLC

None == "None"

TAG_RIGHT == "youzhuan"
TAG_LEFT == "zuozhuan"
TAG_STRAIGHT == "zhixing"

-----------------------------------------------------------------------------
(* Small helpers on sequences and numbers (Python built-ins).              *)

Min2(a, b) == IF a <= b THEN a ELSE b
Max2(a, b) == IF a >= b THEN a ELSE b

(* s[lo:hi] of Python for 0 <= lo, with hi clamped to len(s). *)
Slice(s, lo, hi) ==
    LET h == Min2(hi, Len(s))
    IN  IF lo >= h THEN <<>> ELSE [k \in 1..(h - lo) |-> s[lo + k]]

(* s[-k:] of Python for k >= 1. *)
LastK(s, k) == Slice(s, Max2(Len(s) - k, 0), Len(s))

SeqToSet(s) == {s[k] : k \in 1..Len(s)}

-----------------------------------------------------------------------------
(* The zone table.  ZonePolygon.get_zone_polygon builds it from map files  *)
(* that are data, not code; the table below is a synthetic crossing laid   *)
(* out like the source's: one entry per zone name in the insertion order   *)
(* of ZONE_MAPPING, each with the closed exterior rings shapely returns    *)
(* (the first vertex repeated at the end).  RI_-1 overlaps RI_1 where      *)
(* 10 <= x <= 13.                                                          *)

Rect(x1, y1, x2, y2) ==
    << <<x1, y1>>, <<x2, y1>>, <<x2, y2>>, <<x1, y2>>, <<x1, y1>> >>

ZONE_POLYGON ==
    << [zone_name |-> "RI_1",   polygons |-> << Rect(10, 0, 15, 10) >>],
       [zone_name |-> "RI_2",   polygons |-> << Rect(15, 0, 20, 10) >>],
       [zone_name |-> "RI_-1",  polygons |-> << Rect(3, 0, 13, 10) >>],
       [zone_name |-> "RII_1",  polygons |-> << Rect(20, 10, 30, 20) >>],
       [zone_name |-> "RII_2",  polygons |-> << >>],
       [zone_name |-> "RIII_1", polygons |-> << Rect(10, 20, 20, 30) >>],
       [zone_name |-> "RIV_1",  polygons |-> << Rect(0, 10, 10, 20) >>],
       [zone_name |-> "RV_1",   polygons |-> << Rect(20, 0, 30, 10) >>],
       [zone_name |-> "INT_1",  polygons |-> << Rect(10, 10, 20, 20) >>],
       [zone_name |-> "INT_2",  polygons |-> << Rect(40, 10, 50, 20),
                                                Rect(50, 10, 54, 14) >>] >>

ZoneNames == {ZONE_POLYGON[k].zone_name : k \in 1..Len(ZONE_POLYGON)}

(* str.split('_') / str.rsplit('_', 1) on the zone names of the table:     *)
(* every name holds exactly one '_', so both give the same two tokens.     *)
SplitZone(zone_name) ==
    CASE zone_name = "RI_1"   -> <<"RI", "1">>
      [] zone_name = "RI_2"   -> <<"RI", "2">>
      [] zone_name = "RI_-1"  -> <<"RI", "-1">>
      [] zone_name = "RII_1"  -> <<"RII", "1">>
      [] zone_name = "RII_2"  -> <<"RII", "2">>
      [] zone_name = "RIII_1" -> <<"RIII", "1">>
      [] zone_name = "RIV_1"  -> <<"RIV", "1">>
      [] zone_name = "RV_1"   -> <<"RV", "1">>
      [] zone_name = "INT_1"  -> <<"INT", "1">>
      [] zone_name = "INT_2"  -> <<"INT", "2">>

(* zone_name.startswith("INT_") *)
StartsWithINT(zone_name) == SplitZone(zone_name)[1] = "INT"

(* int() on a lane token of the table. *)
ParseInt(token) ==
    CASE token = "1" -> 1
      [] token = "2" -> 2
      [] token = "-1" -> -1

-----------------------------------------------------------------------------
(* Spatial locator.                                                        *)

(* One edge of the ray-casting loop: TRUE iff the edge (p1, p2) toggles    *)
(* `inside`.  xinters = (y - py1) * (px2 - px1) / (py2 - py1) + px1; the   *)
(* test x <= xinters is cross-multiplied by (py2 - py1), whose sign is     *)
(* known.  py1 # py2 holds whenever the two tests on y pass.               *)
EdgeToggles(x, y, px1, py1, px2, py2) ==
    /\ y > Min2(py1, py2)
    /\ y <= Max2(py1, py2)
    /\ x <= Max2(px1, px2)
    /\ \/ px1 = px2
       \/ IF py2 > py1
            THEN (x - px1) * (py2 - py1) <= (y - py1) * (px2 - px1)
            ELSE (x - px1) * (py2 - py1) >= (y - py1) * (px2 - px1)

is_point_in_polygon(point, polygon) ==
    LET n == Len(polygon)
        \* polygon[i % n] for i = 1..n, with p1 the vertex before it
        V(i) == polygon[(i % n) + 1]
        toggles == {i \in 1..n :
                      EdgeToggles(point[1], point[2],
                                  V(i - 1)[1], V(i - 1)[2], V(i)[1], V(i)[2])}
    IN  Cardinality(toggles) % 2 = 1

(* Lines 231-235 on a table: the entries from the k-th on. *)
RECURSIVE ZoneIn_last(_, _, _)
ZoneIn_last(table, point, k) ==
    IF k > Len(table) THEN None
    ELSE LET rest == ZoneIn_last(table, point, k + 1)
         IN  IF rest # None THEN rest
             ELSE IF \E j \in 1..Len(table[k].polygons) :
                        is_point_in_polygon(point, table[k].polygons[j])
               THEN table[k].zone_name
               ELSE None

RECURSIVE ZoneIn(_, _, _)
ZoneIn(table, point, k) ==
    IF k > Len(table) THEN None
    ELSE IF \E j \in 1..Len(table[k].polygons) :
               is_point_in_polygon(point, table[k].polygons[j])
         THEN table[k].zone_name
         ELSE ZoneIn(table, point, k + 1)

ZoneFrom(point, k) == ZoneIn(ZONE_POLYGON, point, k)

(* The points the trajectories of the model are made of: inside RI_1      *)
(* (far from and 2 m from the crossing INT_1), RI_2, RII_1, RIII_1, RIV_1, *)
(* RV_1, INT_1, INT_2, outside every polygon, and inside RI_-1 only.       *)
P_RI_1 == <<12, 2>>
P_RI_1_NEAR == <<12, 8>>
P_RI_2 == <<17, 2>>
P_RII_1 == <<25, 15>>
P_RIII_1 == <<15, 25>>
P_RIV_1 == <<5, 15>>
P_RV_1 == <<25, 5>>
P_INT_1 == <<15, 15>>
P_INT_2 == <<45, 15>>
P_OUT == <<35, 35>>
P_RI_M1 == <<5, 5>>

ModelPoints == {P_RI_1, P_RI_1_NEAR, P_RI_2, P_RII_1, P_RIII_1, P_RIV_1,
                P_RV_1, P_INT_1, P_INT_2, P_OUT, P_RI_M1}

(* get_zone is a pure function of the point and the table: its value on    *)
(* the points above is computed once.                                      *)
ZoneOfPoint == [p \in ModelPoints |-> ZoneFrom(p, 1)]

get_zone(point) ==
    IF point \in ModelPoints THEN ZoneOfPoint[point] ELSE ZoneFrom(point, 1)

-----------------------------------------------------------------------------
(* State.                                                                  *)

VARIABLES
    pc,            \* position of the routine being run
    trajectory,    \* find_first_last_zone / trajectory_tag_match: the points
    min_frames,    \* find_first_last_zone: the dwell threshold
    i,             \* find_first_last_zone: points of the for loop consumed
    zone,          \* find_first_last_zone: local `zone`
    prev_zone,     \* find_first_last_zone: local `prev_zone`
    count,         \* find_first_last_zone: local `count`
    stable_zone,   \* find_first_last_zone: local `stable_zone`
    first_zone,    \* find_first_last_zone: local `first_zone`
    last_zone,     \* find_first_last_zone: local `last_zone`
    result,        \* the value returned (None until the routine returns)
    track_id,      \* trajectory_tag_match: argument track_id
    tag,           \* trajectory_tag_match: argument tag (the target tag)
    window_size,   \* trajectory_tag_match: argument window_size
    slide_step,    \* trajectory_tag_match: argument slide_step
    start_idx,     \* trajectory_tag_match: next value of the range
    start_zone,    \* trajectory_tag_match: local of the last window
    end_zone,      \* trajectory_tag_match: local of the last window
    turn_tag,      \* trajectory_tag_match: local of the last window
    match,         \* trajectory_tag_match: local of the last window
    window_results,\* trajectory_tag_match: the verdict list
    evaluated,     \* trajectory_tag_match: the slices handed to
                   \* find_first_last_zone so far, as [start, points]
    action_tags,   \* tag_post_process: the argument;
                   \* analyze_trajectory_frame_by_frame: the list handed to
                   \* tag_post_process for the last frame processed
    track_data,    \* analyze_trajectory_frame_by_frame: the rows of the track
    ws_k,          \* ... : entries of [330, 450] tried so far
    frame_to_window_tags, \* ... : local dict, frame_idx -> list of tags
    frame_idx,     \* ... : rows of the frame loop consumed
    previous_points, \* ... : local rolling history of (x, y, heading)
    previous_zones,  \* ... : local rolling history of zone lookups
    results,       \* ... : the records appended so far
    map_data,      \* the zone table the map files yield (read by
                   \* ZonePolygon.get_zone_polygon)
    caches,        \* cache_manager.caches['ZonePolygon']: the OrderedDict,
                   \* as a sequence of [key, instance]
    stats,         \* cache_manager.stats['ZonePolygon']
    built,         \* number of ZonePolygon instances constructed so far;
                   \* an instance is named by its number
    zone_table,    \* the module global ZONE_POLYGON (None before line 224)
    calls,         \* the calls made since the import, as [op, arg, ret]
    workers        \* the callers running at the same time (threads, or
                   \* the workers of a pool): for each, the locals of the
                   \* call it is in

fzLocals == <<i, zone, prev_zone, count, stable_zone, first_zone, last_zone>>
tmArgs == <<track_id, tag, window_size, slide_step>>
tmLocals == <<start_idx, start_zone, end_zone, turn_tag, match,
              window_results, evaluated>>
afVars == <<action_tags, track_data, ws_k, frame_to_window_tags, frame_idx,
            previous_points, previous_zones, results>>
zpVars == <<map_data, caches, stats, built, zone_table, calls>>
mtVars == <<workers>>
vars == <<pc, trajectory, min_frames, fzLocals, result, tmArgs, tmLocals,
          afVars, zpVars, mtVars>>

-----------------------------------------------------------------------------
(* Bounds of the inputs.                                                   *)

MaxTrajLen == 6
MaxMinFrames == 3

FZPoints == {P_RI_1, P_RII_1, P_RIV_1, P_OUT}

SeqsUpTo(S, n) == UNION {[1..k -> S] : k \in 0..n}

-----------------------------------------------------------------------------
(* Stable-zone tracker: find_first_last_zone(trajectory, min_frames).      *)

(* pt[-2:] *)
XY(pt) == LastK(pt, 2)

(* Lines 334-338: the run counter and the label it counts. *)
NextCount_noreset(z, prev, c) == IF z # None THEN c + 1 ELSE 1
NextCount(z, prev, c) == IF z = prev /\ z # None THEN c + 1 ELSE 1
NextPrev(z, prev) == IF z = prev /\ z # None THEN prev ELSE z

(* Line 341. *)
IsStable_strict(c, mf) == c > mf
IsStable(c, mf) == c >= mf

(* One iteration of `for pt in trajectory` on the locals                   *)
(* [prev_zone, count, stable_zone, first_zone, last_zone].                 *)
FZBody(s, z, mf) ==
    LET c == NextCount(z, s.prev_zone, s.count)
        p == NextPrev(z, s.prev_zone)
    IN  IF IsStable(c, mf)
          THEN [prev_zone |-> p, count |-> c, stable_zone |-> z,
                first_zone |-> IF s.first_zone = None THEN z ELSE s.first_zone,
                last_zone |-> z]
          ELSE [s EXCEPT !.prev_zone = p, !.count = c]

FZInitLocals ==
    [prev_zone |-> None, count |-> 0, stable_zone |-> None,
     first_zone |-> None, last_zone |-> None]

(* The locals after the points lo..hi of the loop, from the locals s.  The *)
(* points are consumed in order; the range is split in halves, and the     *)
(* first half is evaluated (by the test on its counter, which always       *)
(* holds) before the second starts, to keep the evaluation shallow.        *)
RECURSIVE FZWalk(_, _, _, _, _)
FZWalk(traj, mf, lo, hi, s) ==
    IF lo > hi THEN s
    ELSE IF lo = hi THEN FZBody(s, get_zone(XY(traj[lo])), mf)
    ELSE LET mid == (lo + hi) \div 2
             left == FZWalk(traj, mf, lo, mid, s)
         IN  IF left.count >= 0
               THEN FZWalk(traj, mf, mid + 1, hi, left)
               ELSE left

(* The call as a function of its arguments, for a non-empty trajectory     *)
(* (trajectory[0] raises IndexError on an empty one).                      *)
find_first_last_zone(traj, mf) ==
    LET s == FZWalk(traj, mf, 1, Len(traj), FZInitLocals)
    IN  <<s.first_zone, s.last_zone>>

(* The same call step by step. *)
FZLocalsNow ==
    [prev_zone |-> prev_zone, count |-> count, stable_zone |-> stable_zone,
     first_zone |-> first_zone, last_zone |-> last_zone]

FZIdle ==
    /\ i = 0 /\ zone = None /\ prev_zone = None /\ count = 0
    /\ stable_zone = None /\ first_zone = None /\ last_zone = None

FZStart_noprobe ==
    /\ pc = "fz_start"
    /\ pc' = "fz_loop"
    /\ UNCHANGED <<zpVars, mtVars, trajectory, min_frames, i, zone, prev_zone, count,
                   stable_zone, first_zone, last_zone, result, tmArgs,
                   tmLocals, afVars>>

(* Lines 320-327: the locals, then zone = get_zone(trajectory[0][-2:]). *)
FZStart ==
    /\ pc = "fz_start"
    /\ IF Len(trajectory) = 0
         THEN /\ pc' = "fz_raised"
              /\ result' = "IndexError"
              /\ UNCHANGED zone
         ELSE /\ pc' = "fz_loop"
              /\ zone' = get_zone(XY(trajectory[1]))
              /\ UNCHANGED result
    /\ UNCHANGED <<zpVars, mtVars, trajectory, min_frames, i, prev_zone, count, stable_zone,
                   first_zone, last_zone, tmArgs, tmLocals, afVars>>

(* Lines 329-345: one point of the loop. *)
FZIter ==
    /\ pc = "fz_loop"
    /\ i < Len(trajectory)
    /\ LET z == get_zone(XY(trajectory[i + 1]))
           s == FZBody(FZLocalsNow, z, min_frames)
       IN  /\ zone' = z
           /\ prev_zone' = s.prev_zone
           /\ count' = s.count
           /\ stable_zone' = s.stable_zone
           /\ first_zone' = s.first_zone
           /\ last_zone' = s.last_zone
    /\ i' = i + 1
    /\ UNCHANGED <<zpVars, mtVars, pc, trajectory, min_frames, result, tmArgs, tmLocals, afVars>>

(* Line 347. *)
FZReturn ==
    /\ pc = "fz_loop"
    /\ i = Len(trajectory)
    /\ pc' = "fz_done"
    /\ result' = <<first_zone, last_zone>>
    /\ UNCHANGED <<zpVars, mtVars, trajectory, min_frames, fzLocals, tmArgs, tmLocals, afVars>>

(* The variables of trajectory_tag_match while it is not running. *)
TMIdle ==
    /\ track_id = 0 /\ tag = None /\ window_size = 0 /\ slide_step = 0
    /\ start_idx = 0 /\ start_zone = None /\ end_zone = None
    /\ turn_tag = None /\ match = FALSE
    /\ window_results = <<>> /\ evaluated = <<>>

(* The variables of analyze_trajectory_frame_by_frame while it is not      *)
(* running.                                                                *)
AFIdle ==
    /\ action_tags = <<>> /\ track_data = <<>> /\ ws_k = 0
    /\ frame_to_window_tags = <<>> /\ frame_idx = 0
    /\ previous_points = <<>> /\ previous_zones = <<>> /\ results = <<>>

(* The module state once windows_slide_tagging is imported with the map    *)
(* of ZONE_POLYGON: line 224 has made the one ZonePolygon() call.          *)
ZPImported ==
    /\ map_data = ZONE_POLYGON /\ zone_table = ZONE_POLYGON
    /\ caches = << [key |-> "ZonePolygon", instance |-> 1] >>
    /\ stats = [hits |-> 0, misses |-> 1]
    /\ built = 1 /\ calls = <<>>

InitFZ ==
    /\ ZPImported
    /\ pc = "fz_start"
    /\ workers = <<>>
    /\ trajectory \in SeqsUpTo(FZPoints, MaxTrajLen)
    /\ min_frames \in 1..MaxMinFrames
    /\ FZIdle
    /\ result = None
    /\ TMIdle
    /\ AFIdle

NextFZ == FZStart \/ FZIter \/ FZReturn

SpecFZ == InitFZ /\ [][NextFZ]_vars

(* ---- Properties of find_first_last_zone ---- *)

(* The zone lookups of the points of the trajectory, in order. *)
Lookups == [k \in 1..Len(trajectory) |-> get_zone(XY(trajectory[k]))]

(* zs holds z at mf consecutive positions ending at position e. *)
RunEndsAt(zs, z, mf, e) ==
    /\ e \in mf..Len(zs)
    /\ \A k \in (e - mf + 1)..e : zs[k] = z

HasRun(zs, z, mf) == \E e \in 1..Len(zs) : RunEndsAt(zs, z, mf, e)

(* zs is n copies of one zone followed by m copies of another zone, with   *)
(* n >= mf and m >= mf.                                                    *)
TwoRuns(zs, mf) ==
    /\ Len(zs) >= 2
    /\ zs[1] # None /\ zs[Len(zs)] # None /\ zs[1] # zs[Len(zs)]
    /\ \E n \in mf..(Len(zs) - mf) :
          /\ \A k \in 1..n : zs[k] = zs[1]
          /\ \A k \in (n + 1)..Len(zs) : zs[k] = zs[Len(zs)]

(* C1: when the lookups are N copies of zone A followed by M copies of a   *)
(* different zone B with N, M >= min_frames, the call returns (A, B).      *)
C1_TwoRunsGiveAB ==
    (pc = "fz_done" /\ TwoRuns(Lookups, min_frames))
        => result = <<Lookups[1], Lookups[Len(Lookups)]>>

C1_Witness ==
    /\ pc = "fz_done" /\ min_frames = 3 /\ TwoRuns(Lookups, min_frames)
    /\ result = <<"RI_1", "RII_1">>

QualifyingEnds(zs, mf) ==
    {e \in 1..Len(zs) : zs[e] # None /\ RunEndsAt(zs, zs[e], mf, e)}

SetMin(S) == CHOOSE x \in S : \A y \in S : x <= y
SetMax(S) == CHOOSE x \in S : \A y \in S : x >= y

(* C3: first_zone is the zone of the earliest run that reaches min_frames  *)
(* identical lookups other than None, last_zone the zone of the latest     *)
(* such run (both None when there is no such run).                         *)
C3_FirstEarliestLastLatest ==
    (pc = "fz_done" /\ Len(trajectory) >= 1) =>
        LET ends == QualifyingEnds(Lookups, min_frames)
        IN  IF ends = {} THEN result = <<None, None>>
            ELSE result = <<Lookups[SetMin(ends)], Lookups[SetMax(ends)]>>


-----------------------------------------------------------------------------
(* Turn classifier: check_turn(start_zone, end_zone, tag).                 *)

right_turn == {<<"RI", "RII">>, <<"RII", "RIII">>, <<"RIII", "RIV">>,
               <<"RIV", "RI">>, <<"RV", "RI">>}
left_turn == {<<"RI", "RIV">>, <<"RIV", "RIII">>, <<"RIII", "RII">>,
              <<"RII", "RI">>}
straight == {<<"RI", "RIII">>, <<"RIII", "RI">>, <<"RII", "RIV">>,
             <<"RIV", "RII">>}

check_turn_swapped(sz, ez, t) ==
    LET start_road == SplitZone(sz)[1]
        end_road == SplitZone(ez)[1]
    IN  IF t = TAG_RIGHT THEN <<start_road, end_road>> \in left_turn
        ELSE IF t = TAG_LEFT THEN <<start_road, end_road>> \in right_turn
        ELSE IF t = TAG_STRAIGHT THEN <<start_road, end_road>> \in straight
        ELSE FALSE

check_turn(sz, ez, t) ==
    LET start_road == SplitZone(sz)[1]
        end_road == SplitZone(ez)[1]
    IN  IF t = TAG_RIGHT THEN <<start_road, end_road>> \in right_turn
        ELSE IF t = TAG_LEFT THEN <<start_road, end_road>> \in left_turn
        ELSE IF t = TAG_STRAIGHT THEN <<start_road, end_road>> \in straight
        ELSE FALSE

-----------------------------------------------------------------------------
(* Sliding-window matcher: trajectory_tag_match(trajectory, tag, track_id, *)
(* window_size, slide_step, min_frames).                                   *)

(* Lines 730-746: the locals turn_tag and match of one window, and whether *)
(* the `continue` of line 744 is taken.                                    *)
Classify_targetonly(sz, ez, t) ==
    IF sz # None /\ ez # None
      THEN IF check_turn(sz, ez, t)
             THEN [turn_tag |-> t, match |-> TRUE, skip |-> FALSE]
           ELSE [turn_tag |-> None, match |-> FALSE, skip |-> TRUE]
      ELSE [turn_tag |-> None, match |-> FALSE, skip |-> FALSE]

Classify_otherasstraight(sz, ez, t) ==
    IF sz # None /\ ez # None
      THEN IF check_turn(sz, ez, TAG_RIGHT)
             THEN [turn_tag |-> TAG_RIGHT, match |-> (t = TAG_RIGHT), skip |-> FALSE]
           ELSE IF check_turn(sz, ez, TAG_LEFT)
             THEN [turn_tag |-> TAG_LEFT, match |-> (t = TAG_LEFT), skip |-> FALSE]
           ELSE [turn_tag |-> TAG_STRAIGHT, match |-> (t = TAG_STRAIGHT), skip |-> FALSE]
      ELSE [turn_tag |-> None, match |-> FALSE, skip |-> FALSE]

Classify(sz, ez, t) ==
    IF sz # None /\ ez # None
      THEN IF check_turn(sz, ez, TAG_RIGHT)
             THEN [turn_tag |-> TAG_RIGHT, match |-> (t = TAG_RIGHT), skip |-> FALSE]
           ELSE IF check_turn(sz, ez, TAG_LEFT)
             THEN [turn_tag |-> TAG_LEFT, match |-> (t = TAG_LEFT), skip |-> FALSE]
           ELSE IF check_turn(sz, ez, TAG_STRAIGHT)
             THEN [turn_tag |-> TAG_STRAIGHT, match |-> (t = TAG_STRAIGHT), skip |-> FALSE]
           ELSE [turn_tag |-> None, match |-> FALSE, skip |-> TRUE]
      ELSE [turn_tag |-> None, match |-> FALSE, skip |-> FALSE]

(* Lines 749-758. *)
WindowResult(tid, s0, e0, sz, ez, tt, m, t) ==
    [trackId |-> tid, start_frame |-> s0, end_frame |-> e0 - 1,
     start_zone |-> sz, end_zone |-> ez, turn_tag |-> tt,
     match_target |-> m, target_tag |-> t]

(* range(0, n - window_size + 1, slide_step): whether `start` is one of    *)
(* its values, given that the values before it were.                       *)
InRange_overrun(start, n, w) == start < n - w + 2
InRange(start, n, w) == start < n - w + 1

(* Lines 724-759: one window.  The locals after it and the verdict list.   *)
TMBody(traj, t, tid, w, mf, start, wr) ==
    LET end_idx == start + w
        window_traj == Slice(traj, start, end_idx)
        fl == find_first_last_zone(window_traj, mf)
        c == Classify(fl[1], fl[2], t)
    IN  [window_traj |-> window_traj,
         start_zone |-> fl[1], end_zone |-> fl[2],
         turn_tag |-> c.turn_tag, match |-> c.match,
         window_results |->
             IF c.skip THEN wr
             ELSE Append(wr, WindowResult(tid, start, end_idx, fl[1], fl[2],
                                          c.turn_tag, c.match, t))]

(* The whole call as a function of its arguments (window_size >= 1). *)
RECURSIVE TMWalk(_, _, _, _, _, _, _, _)
TMWalk(traj, t, tid, w, s, mf, start, wr) ==
    IF ~ InRange(start, Len(traj), w) THEN wr
    ELSE TMWalk(traj, t, tid, w, s, mf, start + s,
                TMBody(traj, t, tid, w, mf, start, wr).window_results)

trajectory_tag_match(traj, t, tid, w, s, mf) ==
    TMWalk(traj, t, tid, w, s, mf, 0, <<>>)

(* The same call step by step: one window of the for loop.  An empty       *)
(* slice (window_size = 0) makes find_first_last_zone raise IndexError.    *)
TMWindow ==
    /\ pc = "tm_loop"
    /\ InRange(start_idx, Len(trajectory), window_size)
    /\ IF Len(Slice(trajectory, start_idx, start_idx + window_size)) = 0
         THEN /\ pc' = "tm_raised"
              /\ result' = "IndexError"
              /\ UNCHANGED tmLocals
         ELSE LET b == TMBody(trajectory, tag, track_id, window_size,
                              min_frames, start_idx, window_results)
              IN  /\ start_zone' = b.start_zone
                  /\ end_zone' = b.end_zone
                  /\ turn_tag' = b.turn_tag
                  /\ match' = b.match
                  /\ window_results' = b.window_results
                  /\ evaluated' = Append(evaluated,
                                         [start |-> start_idx,
                                          points |-> b.window_traj])
                  /\ start_idx' = start_idx + slide_step
                  /\ UNCHANGED <<pc, result>>
    /\ UNCHANGED <<zpVars, mtVars, trajectory, min_frames, fzLocals, tmArgs, afVars>>

(* Line 764. *)
TMReturn ==
    /\ pc = "tm_loop"
    /\ ~ InRange(start_idx, Len(trajectory), window_size)
    /\ pc' = "tm_done"
    /\ result' = window_results
    /\ UNCHANGED <<zpVars, mtVars, trajectory, min_frames, fzLocals, tmArgs, tmLocals, afVars>>

MaxTMLen == 4
MaxWindow == 3
MaxStep == 2
MaxTMMinFrames == 2

TMPoints == {P_RI_1, P_RI_2, P_RII_1, P_RIII_1, P_RIV_1, P_RV_1, P_OUT}
TMTags == {TAG_RIGHT, TAG_LEFT}

InitTM ==
    /\ ZPImported
    /\ pc = "tm_loop"
    /\ workers = <<>>
    /\ trajectory \in SeqsUpTo(TMPoints, MaxTMLen)
    /\ min_frames \in 1..MaxTMMinFrames
    /\ FZIdle
    /\ result = None
    /\ track_id = 8
    /\ tag \in TMTags
    /\ window_size \in 0..MaxWindow
    /\ slide_step \in 1..MaxStep
    /\ start_idx = 0 /\ start_zone = None /\ end_zone = None
    /\ turn_tag = None /\ match = FALSE
    /\ window_results = <<>> /\ evaluated = <<>>
    /\ AFIdle

NextTM == TMWindow \/ TMReturn

SpecTM == InitTM /\ [][NextTM]_vars

(* ---- Properties of check_turn and trajectory_tag_match ---- *)

Road(zone_name) == SplitZone(zone_name)[1]

(* C4: the turn of the window just evaluated is decided by the road-group  *)
(* tokens of its two stable zones alone: right for the right-turn pairs,   *)
(* else left for the left-turn pairs, else straight for the straight       *)
(* pairs, else None; (RI,RII) is right, (RI,RIV) left, (RI,RIII) straight  *)
(* and (RI,RV) None.                                                       *)
C4_TurnByRoadPair ==
    (pc \in {"tm_loop", "tm_done"} /\ start_zone # None /\ end_zone # None) =>
        LET r == <<Road(start_zone), Road(end_zone)>>
        IN  /\ turn_tag =
                  IF r \in {<<"RI", "RII">>, <<"RII", "RIII">>, <<"RIII", "RIV">>,
                             <<"RIV", "RI">>, <<"RV", "RI">>} THEN TAG_RIGHT
                  ELSE IF r \in {<<"RI", "RIV">>, <<"RIV", "RIII">>,
                                  <<"RIII", "RII">>, <<"RII", "RI">>} THEN TAG_LEFT
                  ELSE IF r \in {<<"RI", "RIII">>, <<"RIII", "RI">>,
                                  <<"RII", "RIV">>, <<"RIV", "RII">>} THEN TAG_STRAIGHT
                  ELSE None
            /\ (r = <<"RI", "RII">> => turn_tag = TAG_RIGHT)
            /\ (r = <<"RI", "RIV">> => turn_tag = TAG_LEFT)
            /\ (r = <<"RI", "RIII">> => turn_tag = TAG_STRAIGHT)
            /\ (r = <<"RI", "RV">> => turn_tag = None)

(* A window from lane 2 of road RI to RIV_1: left, as from lane 1. *)
C4_Witness ==
    /\ pc = "tm_done" /\ start_zone = "RI_2" /\ end_zone = "RIV_1"
    /\ turn_tag = TAG_LEFT
    /\ Len(window_results) >= 1

(* The number of values of range(0, n - w + 1, s). *)
RangeLen(n, w, s) == IF n - w + 1 <= 0 THEN 0 ELSE ((n - w) \div s) + 1

(* C8: for window_size >= 1 the slices evaluated start at 0, s, 2s, ...,   *)
(* each lies inside the trajectory and holds exactly window_size points;   *)
(* on return they are all the starts with start + w <= n (none when        *)
(* n < w); every verdict has start_frame = start and                       *)
(* end_frame = start + w - 1 < n.                                          *)
C8_WindowsEvaluated ==
    (pc \in {"tm_loop", "tm_done"} /\ window_size >= 1) =>
        LET n == Len(trajectory) IN
        /\ \A k \in 1..Len(evaluated) :
              /\ evaluated[k].start = (k - 1) * slide_step
              /\ evaluated[k].start + window_size <= n
              /\ Len(evaluated[k].points) = window_size
              /\ \A j \in 1..window_size :
                    evaluated[k].points[j] = trajectory[evaluated[k].start + j]
        /\ pc = "tm_done" =>
              Len(evaluated) = RangeLen(n, window_size, slide_step)
        /\ (n < window_size) => evaluated = <<>>
        /\ \A k \in 1..Len(window_results) :
              /\ \E j \in 1..Len(evaluated) :
                    evaluated[j].start = window_results[k].start_frame
              /\ window_results[k].end_frame =
                    window_results[k].start_frame + window_size - 1
              /\ window_results[k].end_frame < n

(* Four points, windows of three, step one: the windows at 0 and 1 are     *)
(* evaluated, the one at 2 would overrun and is not.                       *)
C8_Witness ==
    /\ pc = "tm_done" /\ Len(trajectory) = 4 /\ window_size = 3
    /\ slide_step = 1 /\ Len(evaluated) = 2
    /\ Len(window_results) >= 1

(* C9: on return the verdict list has one entry per evaluated window, in   *)
(* order; an entry carries the recognised turn_tag when both stable zones  *)
(* exist and their pair is in a table, and None otherwise.                 *)
C9_VerdictPerWindow ==
    (pc = "tm_done" /\ window_size >= 1) =>
        /\ Len(window_results) = Len(evaluated)
        /\ \A k \in 1..Len(window_results) :
              LET v == window_results[k]
                  fl == find_first_last_zone(evaluated[k].points, min_frames)
              IN  /\ v.start_frame = evaluated[k].start
                  /\ v.start_zone = fl[1] /\ v.end_zone = fl[2]
                  /\ v.turn_tag = Classify(fl[1], fl[2], tag).turn_tag


-----------------------------------------------------------------------------
(* Conflict resolver: tag_post_process(action_tags).                       *)

turning_tags == {"turning_left", "turning_right"}
chinese_turn_tags == {TAG_LEFT, TAG_RIGHT}
straight_tags == {TAG_STRAIGHT}

(* Lines 604-620: should_keep for one tag, given the set of all tags. *)
ShouldKeep_norule3(t, tag_set) ==
    LET has_straight == (straight_tags \cap tag_set) # {}
        has_both_chinese_turns == TAG_LEFT \in tag_set /\ TAG_RIGHT \in tag_set
    IN  IF t \in turning_tags /\ has_straight THEN FALSE
        ELSE IF t \in chinese_turn_tags /\ has_straight THEN FALSE
        ELSE IF t \in chinese_turn_tags /\ has_both_chinese_turns THEN FALSE
        ELSE TRUE

ShouldKeep_straighttoo(t, tag_set) ==
    LET has_straight == (straight_tags \cap tag_set) # {}
        has_turn == ((turning_tags \cup chinese_turn_tags) \cap tag_set) # {}
        has_both_turns == "turning_left" \in tag_set /\ "turning_right" \in tag_set
        has_both_chinese_turns == TAG_LEFT \in tag_set /\ TAG_RIGHT \in tag_set
    IN  IF t \in turning_tags /\ has_straight THEN FALSE
        ELSE IF t \in chinese_turn_tags /\ has_straight THEN FALSE
        ELSE IF t \in straight_tags /\ has_turn THEN FALSE
        ELSE IF t \in turning_tags /\ has_both_turns THEN FALSE
        ELSE IF t \in chinese_turn_tags /\ has_both_chinese_turns THEN FALSE
        ELSE TRUE

ShouldKeep_norule1(t, tag_set) ==
    LET has_straight == (straight_tags \cap tag_set) # {}
        has_both_turns == "turning_left" \in tag_set /\ "turning_right" \in tag_set
        has_both_chinese_turns == TAG_LEFT \in tag_set /\ TAG_RIGHT \in tag_set
    IN  IF t \in chinese_turn_tags /\ has_straight THEN FALSE
        ELSE IF t \in turning_tags /\ has_both_turns THEN FALSE
        ELSE IF t \in chinese_turn_tags /\ has_both_chinese_turns THEN FALSE
        ELSE TRUE

ShouldKeep(t, tag_set) ==
    LET has_straight == (straight_tags \cap tag_set) # {}
        has_both_turns == "turning_left" \in tag_set /\ "turning_right" \in tag_set
        has_both_chinese_turns == TAG_LEFT \in tag_set /\ TAG_RIGHT \in tag_set
    IN  IF t \in turning_tags /\ has_straight THEN FALSE
        ELSE IF t \in chinese_turn_tags /\ has_straight THEN FALSE
        ELSE IF t \in turning_tags /\ has_both_turns THEN FALSE
        ELSE IF t \in chinese_turn_tags /\ has_both_chinese_turns THEN FALSE
        ELSE TRUE

(* The tags of `tags` for which Keep holds, in order. *)
RECURSIVE Filter(_, _, _)
Filter(tags, tag_set, k) ==
    IF k > Len(tags) THEN <<>>
    ELSE IF ShouldKeep(tags[k], tag_set)
           THEN <<tags[k]>> \o Filter(tags, tag_set, k + 1)
           ELSE Filter(tags, tag_set, k + 1)

tag_post_process(tags) ==
    IF Len(tags) = 0 THEN tags
    ELSE Filter(tags, SeqToSet(tags), 1)

(* The call on its own. *)
PostProcess ==
    /\ pc = "post_start"
    /\ pc' = "post_done"
    /\ result' = tag_post_process(action_tags)
    /\ UNCHANGED <<zpVars, mtVars, trajectory, min_frames, fzLocals, tmArgs, tmLocals, afVars>>

PostIdle ==
    /\ track_data = <<>> /\ ws_k = 0
    /\ frame_to_window_tags = <<>> /\ frame_idx = 0
    /\ previous_points = <<>> /\ previous_zones = <<>> /\ results = <<>>

MaxTags == 4

PostTags == {"turning_left", "turning_right", TAG_LEFT, TAG_RIGHT,
             TAG_STRAIGHT, "moving", "lane_change"}

InitPost ==
    /\ ZPImported
    /\ pc = "post_start"
    /\ workers = <<>>
    /\ action_tags \in SeqsUpTo(PostTags, MaxTags)
    /\ trajectory = <<>> /\ min_frames = 0
    /\ FZIdle
    /\ TMIdle
    /\ PostIdle
    /\ result = None

NextPost == PostProcess

SpecPost == InitPost /\ [][NextPost]_vars

(* ---- Properties of tag_post_process ---- *)

AllTurnTags == {"turning_left", "turning_right", TAG_LEFT, TAG_RIGHT}

(* No turn tag beside the straight tag, no left beside right within one    *)
(* tag family.                                                             *)
ConflictFree(S) ==
    /\ ~ (TAG_STRAIGHT \in S /\ (AllTurnTags \cap S) # {})
    /\ ~ ("turning_left" \in S /\ "turning_right" \in S)
    /\ ~ (TAG_LEFT \in S /\ TAG_RIGHT \in S)

(* C5: the output of tag_post_process never holds a turn tag together with *)
(* the straight tag, nor turning_left with turning_right, nor the left     *)
(* with the right window tag; {turning_left, straight} gives {straight},   *)
(* {turning_left, turning_right} gives an output with neither.             *)
C5_OutputConflictFree ==
    pc = "post_done" =>
        LET in == SeqToSet(action_tags)
            out == SeqToSet(result)
        IN  /\ ConflictFree(out)
            /\ (in = {"turning_left", TAG_STRAIGHT}) => out = {TAG_STRAIGHT}
            /\ (in = {"turning_left", "turning_right"})
                  => out \cap {"turning_left", "turning_right"} = {}

C5_Witness ==
    /\ pc = "post_done"
    /\ action_tags = <<"moving", "turning_left", "turning_right", TAG_LEFT>>
    /\ result = <<"moving", TAG_LEFT>>

-----------------------------------------------------------------------------
(* Spatial locator: get_distance_to_intersection(point, max_distance).     *)
(* A distance is kept as the fraction num / den of its square; den = 0 is  *)
(* float('inf').  a <= b on such fractions is a.num * b.den <= b.num *     *)
(* a.den.  Where the source returns None for a distance, the model has     *)
(* the record NoDistance.                                                  *)

NoDistance == [none |-> TRUE]

Inf == [num |-> 1, den |-> 0]
Zero == [num |-> 0, den |-> 1]
DistLE(a, b) == a.num * b.den <= b.num * a.den
DistMin(a, b) == IF DistLE(a, b) THEN a ELSE b

(* Lines 257-281: the distance from (px, py) to the edge (x1,y1)-(x2,y2). *)
EdgeDistance(px, py, x1, y1, x2, y2) ==
    LET A == px - x1
        B == py - y1
        C == x2 - x1
        D == y2 - y1
        dot == A * C + B * D
        len_sq == C * C + D * D
    IN  IF len_sq = 0 THEN [num |-> A * A + B * B, den |-> 1]
        ELSE IF dot < 0                       \* param < 0
          THEN [num |-> A * A + B * B, den |-> 1]
        ELSE IF dot > len_sq                  \* param > 1
          THEN [num |-> (px - x2) * (px - x2) + (py - y2) * (py - y2),
                den |-> 1]
        ELSE \* xx = x1 + param * C, yy = y1 + param * D, param = dot / len_sq:
             \* (px - xx)^2 + (py - yy)^2 = (A * D - B * C)^2 / len_sq
             [num |-> (A * D - B * C) * (A * D - B * C), den |-> len_sq]

RECURSIVE MinEdgeDistance(_, _, _)
MinEdgeDistance(point, polygon, k) ==
    IF k > Len(polygon) THEN Inf
    ELSE LET p1 == polygon[k]
             p2 == polygon[(k % Len(polygon)) + 1]
         IN  DistMin(EdgeDistance(point[1], point[2], p1[1], p1[2], p2[1], p2[2]),
                     MinEdgeDistance(point, polygon, k + 1))

(* Lines 250-289 for one polygon. *)
PolygonDistance(point, polygon) ==
    IF is_point_in_polygon(point, polygon) THEN Zero
    ELSE MinEdgeDistance(point, polygon, 1)

(* The polygons of all zones of a table, whatever their names. *)
RECURSIVE IntersectionPolygonsIn_anyzone(_, _)
IntersectionPolygonsIn_anyzone(table, k) ==
    IF k > Len(table) THEN <<>>
    ELSE table[k].polygons \o IntersectionPolygonsIn_anyzone(table, k + 1)

(* Lines 248-250: the polygons of the zones of a table whose name starts   *)
(* with INT_, in table order.                                              *)
RECURSIVE IntersectionPolygonsIn(_, _)
IntersectionPolygonsIn(table, k) ==
    IF k > Len(table) THEN <<>>
    ELSE (IF StartsWithINT(table[k].zone_name)
            THEN table[k].polygons ELSE <<>>)
         \o IntersectionPolygonsIn(table, k + 1)

IntersectionPolygons(k) == IntersectionPolygonsIn(ZONE_POLYGON, k)

RECURSIVE MinPolygonDistance(_, _, _)
MinPolygonDistance(point, polys, k) ==
    IF k > Len(polys) THEN Inf
    ELSE DistMin(PolygonDistance(point, polys[k]),
                 MinPolygonDistance(point, polys, k + 1))

(* max_distance in metres.  The result is NoDistance or the                *)
(* squared-distance fraction.                                              *)
DistanceIn(table, point, max_distance) ==
    LET polys == IntersectionPolygonsIn(table, 1)
        found_intersection == Len(polys) > 0
        min_distance == MinPolygonDistance(point, polys, 1)
    IN  IF found_intersection
           /\ DistLE(min_distance, [num |-> max_distance * max_distance, den |-> 1])
          THEN min_distance
          ELSE NoDistance

get_distance_to_intersection(point, max_distance) ==
    DistanceIn(ZONE_POLYGON, point, max_distance)

-----------------------------------------------------------------------------
(* Frame tagger: calculate_speed_tags, calculate_action_tags.              *)
(* Speeds are in tenths of m/s: total_speed < 0.5 is vx^2 + vy^2 < 5^2.    *)

SpeedSq(velocity) == velocity[1] * velocity[1] + velocity[2] * velocity[2]

calculate_speed_tags_inclusive(velocity, lon_acceleration) ==
    << IF SpeedSq(velocity) < 5 * 5 THEN "stopped"
       ELSE IF SpeedSq(velocity) < 20 * 20 THEN "slow"
       ELSE IF SpeedSq(velocity) < 80 * 80 THEN "normal"
       ELSE "fast",
       IF lon_acceleration >= 10 THEN "accelerating"
       ELSE IF lon_acceleration <= -10 THEN "decelerating"
       ELSE "constant_speed" >>

calculate_speed_tags(velocity, lon_acceleration) ==
    << IF SpeedSq(velocity) < 5 * 5 THEN "stopped"
       ELSE IF SpeedSq(velocity) < 20 * 20 THEN "slow"
       ELSE IF SpeedSq(velocity) < 80 * 80 THEN "normal"
       ELSE "fast",
       IF lon_acceleration > 10 THEN "accelerating"
       ELSE IF lon_acceleration < -10 THEN "decelerating"
       ELSE "constant_speed" >>

LC_MIN_HISTORY == 10
LC_LOOKBACK == 60
LC_MIN_VALID == 10
LC_SCAN == 5
LC_STABLE_RUN == 3
HEADING_HISTORY == 100
HEADING_THRESHOLD == 7
NEAR_DISTANCE == 3

(* Lines 477-482: entries after 0-based index i0 that equal z, scanning    *)
(* j = i0 + 1 .. hi - 1 until the first that differs.                      *)
RECURSIVE CountFwd(_, _, _, _)
CountFwd(v, z, j, hi) ==
    IF j >= hi THEN 0
    ELSE IF v[j + 1] = z THEN 1 + CountFwd(v, z, j + 1, hi) ELSE 0

(* Lines 492-497: the same backwards, j = i0 - 1 down to lo + 1. *)
RECURSIVE CountBwd(_, _, _, _)
CountBwd(v, z, j, lo) ==
    IF j <= lo THEN 0
    ELSE IF v[j + 1] = z THEN 1 + CountBwd(v, z, j - 1, lo) ELSE 0

(* Lines 474-486. *)
StartStableZone(v) ==
    LET n == Len(v)
        hits == {i0 \in 0..(n - 3) :
                   1 + CountFwd(v, v[i0 + 1], i0 + 1, Min2(i0 + LC_SCAN, n))
                     >= LC_STABLE_RUN}
    IN  IF hits = {} THEN None
        ELSE v[(CHOOSE x \in hits : \A y \in hits : x <= y) + 1]

EndStableZone_last(v) == v[Len(v)]

(* Lines 489-501. *)
EndStableZone(v) ==
    LET n == Len(v)
        hits == {i0 \in 2..(n - 1) :
                   1 + CountBwd(v, v[i0 + 1], i0 - 1, Max2(i0 - LC_SCAN, -1))
                     >= LC_STABLE_RUN}
    IN  IF hits = {} THEN None
        ELSE v[(CHOOSE x \in hits : \A y \in hits : x >= y) + 1]

(* '_' in zone_name *)
HasUnderscore(zone_name) == Len(SplitZone(zone_name)) >= 2

NotNone(z) == z # None

(* Lines 459-529: the lane-change tags appended. *)
LaneChangeTags(current_zone, prev_zones) ==
    IF Len(prev_zones) < LC_MIN_HISTORY THEN <<>>
    ELSE
      LET wsz == Min2(LC_LOOKBACK, Len(prev_zones))
          zone_window == LastK(prev_zones, wsz) \o <<current_zone>>
          valid == SelectSeq(zone_window, NotNone)
      IN  IF Len(valid) < LC_MIN_VALID THEN <<>>
          ELSE
            LET start_stable_zone == StartStableZone(valid)
                end_stable_zone == EndStableZone(valid)
            IN  IF /\ start_stable_zone # None /\ end_stable_zone # None
                   /\ start_stable_zone # end_stable_zone
                   /\ HasUnderscore(start_stable_zone)
                   /\ HasUnderscore(end_stable_zone)
                   /\ SplitZone(start_stable_zone)[1] = SplitZone(end_stable_zone)[1]
                  THEN LET start_lane == ParseInt(SplitZone(start_stable_zone)[2])
                           end_lane == ParseInt(SplitZone(end_stable_zone)[2])
                       IN  IF start_lane # end_lane
                             THEN << IF end_lane > start_lane
                                       THEN "lane_change_right"
                                       ELSE "lane_change_left",
                                     "lane_change" >>
                             ELSE <<>>
                  ELSE <<>>

(* Lines 539-544: one heading difference, wrapped. *)
WrapDiff(h1, h0) ==
    LET diff == h1 - h0
    IN  IF diff > 180 THEN diff - 360
        ELSE IF diff < -180 THEN diff + 360
        ELSE diff

(* Lines 537-547: np.sum(heading_changes), over the differences           *)
(* prev_headings[k] - prev_headings[k-1] for k = lo..hi (1-based), summed  *)
(* by halves.                                                              *)
RECURSIVE SumHeadingChange(_, _, _)
SumHeadingChange(prev_headings, lo, hi) ==
    IF lo > hi THEN 0
    ELSE IF lo = hi THEN WrapDiff(prev_headings[lo], prev_headings[lo - 1])
    ELSE LET mid == (lo + hi) \div 2
         IN  SumHeadingChange(prev_headings, lo, mid)
             + SumHeadingChange(prev_headings, mid + 1, hi)

NearIntersection_anywhere(current_point, current_zone) == TRUE

(* Lines 550-557. *)
NearIntersection(current_point, current_zone) ==
    LET is_at_intersection ==
            current_zone # None /\ StartsWithINT(current_zone)
        distance_to_intersection ==
            get_distance_to_intersection(<<current_point[1], current_point[2]>>,
                                         NEAR_DISTANCE)
        is_near_intersection == distance_to_intersection # NoDistance
    IN  is_at_intersection \/ is_near_intersection

HeadingTags_shorthistory(current_point, prev_points, current_zone) ==
    IF Len(prev_points) < 2 THEN <<>>
    ELSE
      LET last == LastK(prev_points, Min2(HEADING_HISTORY, Len(prev_points)))
          prev_headings == [k \in 1..Len(last) |-> last[k][3]]
          sum_heading_change == SumHeadingChange(prev_headings, 2, Len(prev_headings))
      IN  IF NearIntersection(current_point, current_zone)
            THEN IF sum_heading_change > HEADING_THRESHOLD
                   THEN <<"turning_left">>
                 ELSE IF sum_heading_change < -HEADING_THRESHOLD
                   THEN <<"turning_right">>
                 ELSE <<>>
            ELSE <<>>

(* Lines 531-566: the heading-based turn tag appended. *)
HeadingTags(current_point, prev_points, current_zone) ==
    IF Len(prev_points) < HEADING_HISTORY THEN <<>>
    ELSE
      LET last == LastK(prev_points, HEADING_HISTORY)
          prev_headings == [k \in 1..Len(last) |-> last[k][3]]
          sum_heading_change == SumHeadingChange(prev_headings, 2, Len(prev_headings))
      IN  IF NearIntersection(current_point, current_zone)
            THEN IF sum_heading_change > HEADING_THRESHOLD
                   THEN <<"turning_left">>
                 ELSE IF sum_heading_change < -HEADING_THRESHOLD
                   THEN <<"turning_right">>
                 ELSE <<>>
            ELSE <<>>

calculate_action_tags_ownthreshold(current_point, prev_points, current_zone, prev_zones, velocity) ==
    << IF SpeedSq(velocity) < 4 * 4 THEN "waiting" ELSE "moving" >>
    \o LaneChangeTags(current_zone, prev_zones)
    \o HeadingTags(current_point, prev_points, current_zone)

(* Lines 448-568. *)
calculate_action_tags(current_point, prev_points, current_zone, prev_zones, velocity) ==
    << IF SpeedSq(velocity) < 5 * 5 THEN "waiting" ELSE "moving" >>
    \o LaneChangeTags(current_zone, prev_zones)
    \o HeadingTags(current_point, prev_points, current_zone)

-----------------------------------------------------------------------------
(* Frame tagger: analyze_trajectory_frame_by_frame(track_data, track_id,   *)
(* target_tag).                                                            *)

WINDOW_SIZES == <<330, 450>>
SLIDE_STEP == 30
MIN_FRAMES == 6
HISTORY_MAX == 500

RECURSIVE FrameToWindowTags_exclusive(_, _, _)
FrameToWindowTags_exclusive(wr, k, d) ==
    IF k > Len(wr) THEN d
    ELSE LET frames == wr[k].start_frame .. (wr[k].end_frame - 1)
             add == IF wr[k].turn_tag # None THEN <<wr[k].turn_tag>> ELSE <<>>
             d2 == [f \in (DOMAIN d) \cup frames |->
                      IF f \in frames
                        THEN (IF f \in DOMAIN d THEN d[f] ELSE <<>>) \o add
                        ELSE d[f]]
         IN  FrameToWindowTags_exclusive(wr, k + 1, d2)

(* Lines 646-655: the dict after the windows wr[k..] are added to d.       *)
RECURSIVE FrameToWindowTags(_, _, _)
FrameToWindowTags(wr, k, d) ==
    IF k > Len(wr) THEN d
    ELSE LET frames == wr[k].start_frame .. wr[k].end_frame
             add == IF wr[k].turn_tag # None THEN <<wr[k].turn_tag>> ELSE <<>>
             d2 == [f \in (DOMAIN d) \cup frames |->
                      IF f \in frames
                        THEN (IF f \in DOMAIN d THEN d[f] ELSE <<>>) \o add
                        ELSE d[f]]
         IN  FrameToWindowTags(wr, k + 1, d2)

(* list(dict.fromkeys(tags)): first occurrences, in order. *)
RECURSIVE Dedup(_, _, _)
Dedup(tags, k, seen) ==
    IF k > Len(tags) THEN <<>>
    ELSE IF tags[k] \in seen THEN Dedup(tags, k + 1, seen)
    ELSE <<tags[k]>> \o Dedup(tags, k + 1, seen \cup {tags[k]})

(* Line 657: trajectory_tag_match always returns a list, so                *)
(* `window_results is not None` holds; window_size is the clamped value.   *)
BreakAfterWindows(n, w) == TRUE \/ n < w

(* Lines 636-658: one pass of `for window_size in [330, 450]`.  On an      *)
(* empty track the clamped window is empty and find_first_last_zone        *)
(* raises IndexError.                                                      *)
AFWindows ==
    /\ pc = "af_windows"
    /\ ws_k < Len(WINDOW_SIZES)
    /\ LET w == Min2(Len(trajectory), WINDOW_SIZES[ws_k + 1])
       IN  IF w = 0
             THEN /\ pc' = "af_raised"
                  /\ result' = "IndexError"
                  /\ UNCHANGED <<window_size, window_results,
                                 frame_to_window_tags>>
             ELSE LET wr == trajectory_tag_match(trajectory, tag, track_id, w,
                                                 SLIDE_STEP, MIN_FRAMES)
                  IN  /\ window_size' = w
                      /\ window_results' = wr
                      /\ frame_to_window_tags' = FrameToWindowTags(wr, 1, <<>>)
                      /\ pc' = IF BreakAfterWindows(Len(trajectory), w)
                                   \/ ws_k + 1 = Len(WINDOW_SIZES)
                                 THEN "af_frames" ELSE "af_windows"
                      /\ UNCHANGED result
    /\ ws_k' = ws_k + 1
    /\ UNCHANGED <<zpVars, mtVars, trajectory, min_frames, fzLocals, track_id, tag, slide_step,
                   start_idx, start_zone, end_zone, turn_tag, match, evaluated,
                   action_tags, track_data, frame_idx, previous_points,
                   previous_zones, results>>

Remember_nopop(history, x) == Append(history, x)

(* Lines 700-707: append, then pop(0) above HISTORY_MAX entries. *)
Remember(history, x) ==
    LET h == Append(history, x)
    IN  IF Len(h) > HISTORY_MAX THEN Tail(h) ELSE h

(* Lines 663-685: the tags of one row before tag_post_process, at frame    *)
(* position fidx with the histories pp, pz and the dict ftw.               *)
FrameTags(row, fidx, pp, pz, ftw) ==
    LET velocity == <<row.xVelocity, row.yVelocity>>
        current_point == <<row.xCenter, row.yCenter, row.heading>>
        current_zone == get_zone(<<row.xCenter, row.yCenter>>)
        local_tags == calculate_action_tags(current_point, pp, current_zone,
                                            pz, velocity)
        extended == IF fidx \in DOMAIN ftw
                      THEN local_tags \o ftw[fidx]
                      ELSE local_tags
    IN  Dedup(extended, 1, {})

(* Lines 688-697: the record of one row. *)
FrameRecord(row, tid, deduped) ==
    [trackId |-> tid, frame |-> row.frame,
     action_tags |-> tag_post_process(deduped),
     speed_tags |-> calculate_speed_tags(<<row.xVelocity, row.yVelocity>>,
                                         row.lonAcceleration)]

AFFrame_position ==
    /\ pc = "af_frames"
    /\ frame_idx < Len(track_data)
    /\ LET row == track_data[frame_idx + 1]
           current_point == <<row.xCenter, row.yCenter, row.heading>>
           current_zone == get_zone(<<row.xCenter, row.yCenter>>)
           deduped == FrameTags(row, frame_idx, previous_points,
                                previous_zones, frame_to_window_tags)
       IN  /\ action_tags' = deduped
           /\ results' = Append(results,
                  [FrameRecord(row, track_id, deduped) EXCEPT !.frame = frame_idx])
           /\ previous_points' = Remember(previous_points, current_point)
           /\ previous_zones' = Remember(previous_zones, current_zone)
    /\ frame_idx' = frame_idx + 1
    /\ UNCHANGED <<zpVars, mtVars, pc, trajectory, min_frames, fzLocals, result, tmArgs,
                   tmLocals, track_data, ws_k, frame_to_window_tags>>

(* Lines 662-707: one row of the frame loop. *)
AFFrame ==
    /\ pc = "af_frames"
    /\ frame_idx < Len(track_data)
    /\ LET row == track_data[frame_idx + 1]
           current_point == <<row.xCenter, row.yCenter, row.heading>>
           current_zone == get_zone(<<row.xCenter, row.yCenter>>)
           deduped == FrameTags(row, frame_idx, previous_points,
                                previous_zones, frame_to_window_tags)
       IN  /\ action_tags' = deduped
           /\ results' = Append(results, FrameRecord(row, track_id, deduped))
           /\ previous_points' = Remember(previous_points, current_point)
           /\ previous_zones' = Remember(previous_zones, current_zone)
    /\ frame_idx' = frame_idx + 1
    /\ UNCHANGED <<zpVars, mtVars, pc, trajectory, min_frames, fzLocals, result, tmArgs,
                   tmLocals, track_data, ws_k, frame_to_window_tags>>

(* Line 713. *)
AFReturn ==
    /\ pc = "af_frames"
    /\ frame_idx = Len(track_data)
    /\ pc' = "af_done"
    /\ result' = results
    /\ UNCHANGED <<zpVars, mtVars, trajectory, min_frames, fzLocals, tmArgs, tmLocals, afVars>>

(* ---- The tracks of the model ---- *)

(* The frame number of the first row of a track. *)
FirstFrame == 7

(* A track is three segments [point, frames, heading step per frame,       *)
(* velocity, longitudinal acceleration]: the vehicle stays at the point    *)
(* (each point stands for its zone) and its heading, 0 before the first    *)
(* row, grows by the step with every row, modulo 360.                      *)
Seg(p, n, dh, v, a) == [p |-> p, n |-> n, dh |-> dh, v |-> v, a |-> a]

SegIndex(segs, k) ==
    IF k <= segs[1].n THEN 1
    ELSE IF k <= segs[1].n + segs[2].n THEN 2 ELSE 3

HeadingAt(segs, k) ==
    LET j == SegIndex(segs, k)
        turned == IF j = 1 THEN k * segs[1].dh
                  ELSE IF j = 2
                    THEN segs[1].n * segs[1].dh + (k - segs[1].n) * segs[2].dh
                  ELSE segs[1].n * segs[1].dh + segs[2].n * segs[2].dh
                       + (k - segs[1].n - segs[2].n) * segs[3].dh
    IN  turned % 360

MkTrack(segs) ==
    [k \in 1..(segs[1].n + segs[2].n + segs[3].n) |->
        LET g == segs[SegIndex(segs, k)]
        IN  [frame |-> FirstFrame + k - 1,
             xCenter |-> g.p[1], yCenter |-> g.p[2],
             heading |-> HeadingAt(segs, k),
             xVelocity |-> g.v[1], yVelocity |-> g.v[2],
             lonAcceleration |-> g.a]]

(* frames per segment *)
SegLengths == {<<20, 10, 20>>, <<120, 10, 20>>, <<60, 280, 30>>}

(* Tracks with windows that hold no stable zone: 50 rows outside every     *)
(* zone; 20 rows in RI_1 followed by 350 rows outside every zone.          *)
OutsideTracks ==
    {MkTrack(<<Seg(p1, ns[1], 0, <<30, 40>>, 0),
               Seg(P_OUT, ns[2], 0, <<3, 4>>, 11),
               Seg(P_OUT, ns[3], 0, <<0, 4>>, -11)>>) :
        p1 \in {P_OUT, P_RI_1}, ns \in {<<20, 10, 20>>, <<20, 320, 30>>}}

(* A track of 510 rows, longer than the history kept: 100 rows in RI_1     *)
(* turning by 1 degree per row, 10 rows in INT_1, 400 rows in RII_1.  A    *)
(* track of 370 rows whose windows of 330 rows see RI_1 -> RI_2 and        *)
(* RI_2 -> RI_2 only, while the whole track goes from RI_1 to RII_1.       *)
LongTracks ==
    {MkTrack(<<Seg(P_RI_1, 100, 1, <<30, 40>>, 0),
               Seg(P_INT_1, 10, 10, <<3, 4>>, 11),
               Seg(P_RII_1, 400, 0, <<0, 4>>, -11)>>),
     MkTrack(<<Seg(P_RI_1, 20, 0, <<30, 40>>, 0),
               Seg(P_RI_2, 340, 0, <<30, 40>>, 0),
               Seg(P_RII_1, 10, 0, <<30, 40>>, 0)>>)}

Tracks ==
    {<<>>} \cup OutsideTracks \cup
    {MkTrack(<<Seg(p1, ns[1], 0, <<30, 40>>, 0),
               Seg(p2, ns[2], dh, <<3, 4>>, 11),
               Seg(p3, ns[3], 0, <<0, 4>>, -11)>>) :
        p1 \in {P_RI_1, P_RI_1_NEAR},
        p2 \in {P_INT_1, P_RII_1, P_OUT},
        p3 \in {P_RIV_1, P_RII_1, P_RIII_1, P_RI_2, P_OUT},
        dh \in {-10, 0, 10},
        ns \in SegLengths}

(* Lines 627-634: the call on one of the given tracks. *)
InitOn(tracks) ==
    /\ ZPImported
    /\ pc = "af_windows"
    /\ workers = <<>>
    /\ track_data \in tracks
    /\ trajectory = [k \in 1..Len(track_data) |->
                        <<track_data[k].xCenter, track_data[k].yCenter>>]
    /\ track_id = 8
    /\ tag = TAG_RIGHT
    /\ min_frames = 0 /\ slide_step = 0 /\ window_size = 0
    /\ start_idx = 0 /\ start_zone = None /\ end_zone = None
    /\ turn_tag = None /\ match = FALSE
    /\ window_results = <<>> /\ evaluated = <<>>
    /\ FZIdle
    /\ result = None
    /\ action_tags = <<>> /\ ws_k = 0
    /\ frame_to_window_tags = <<>> /\ frame_idx = 0
    /\ previous_points = <<>> /\ previous_zones = <<>> /\ results = <<>>

InitAF == InitOn(Tracks)

NextAF == AFWindows \/ AFFrame \/ AFReturn

SpecAF == InitAF /\ [][NextAF]_vars

(* ---- Properties of analyze_trajectory_frame_by_frame ---- *)

LeftTags == {"turning_left", TAG_LEFT}
RightTags == {"turning_right", TAG_RIGHT}

(* The tags of the k-th record of the returned list, as a set. *)
RecordTags(k) == SeqToSet(result[k].action_tags)

(* C6 (as stated): no returned record holds a left-turn tag (turning_left  *)
(* or the left window tag) together with a right-turn tag (turning_right   *)
(* or the right window tag), nor a turn tag together with the straight     *)
(* tag.                                                                    *)
C6_NoLeftBesideRight ==
    pc = "af_done" =>
        \A k \in 1..Len(result) :
            /\ ~ ((LeftTags \cap RecordTags(k)) # {}
                  /\ (RightTags \cap RecordTags(k)) # {})
            /\ ~ (TAG_STRAIGHT \in RecordTags(k)
                  /\ (AllTurnTags \cap RecordTags(k)) # {})

(* C6 (amended): no returned record holds a turn tag together with the     *)
(* straight tag, nor turning_left with turning_right, nor the left window  *)
(* tag with the right window tag.                                          *)
C6_RecordsConflictFree ==
    pc = "af_done" =>
        \A k \in 1..Len(result) : ConflictFree(RecordTags(k))

(* A returned record whose frame got a heading-derived and a               *)
(* window-derived turn tag.                                                *)
C6_Witness ==
    /\ pc = "af_done"
    /\ \E k \in 1..Len(result) :
          result[k].action_tags = <<"moving", "turning_left", TAG_RIGHT>>

(* The track of the scenario: 20 rows in RI_1, 10 rows in INT_1 with the   *)
(* heading growing by 10 degrees per row, 20 rows in RIV_1.                *)
Scenario50 ==
    MkTrack(<<Seg(P_RI_1, 20, 0, <<30, 40>>, 0),
              Seg(P_INT_1, 10, 10, <<3, 4>>, 11),
              Seg(P_RIV_1, 20, 0, <<0, 4>>, -11)>>)

IntersectionRows == 21..30

KthOf(S, k) == CHOOSE x \in S : Cardinality({y \in S : y <= x}) = k

(* The first occurrences of t, in order. *)
FirstSeen(t) ==
    LET keep == {j \in 1..Len(t) : \A h \in 1..(j - 1) : t[h] # t[j]}
    IN  [k \in 1..Cardinality(keep) |-> t[KthOf(keep, k)]]

(* The verdicts covering frame position f that carry a turn tag. *)
Covering(f) ==
    {k \in 1..Len(window_results) :
        /\ window_results[k].start_frame <= f
        /\ f <= window_results[k].end_frame
        /\ window_results[k].turn_tag # None}

(* Frame position of the row handled last. *)
LastPos == frame_idx - 1

(* The frame-local tags of the row handled last; the histories have not    *)
(* yet been trimmed when they hold the row itself at position LastPos + 1. *)
LastLocalTags ==
    LET row == track_data[LastPos + 1]
        pt == <<row.xCenter, row.yCenter, row.heading>>
    IN  calculate_action_tags(pt, SubSeq(previous_points, 1, LastPos),
                              get_zone(<<row.xCenter, row.yCenter>>),
                              SubSeq(previous_zones, 1, LastPos),
                              <<row.xVelocity, row.yVelocity>>)

(* C10: the list handed to tag_post_process for frame position f is the    *)
(* frame-local tags followed by the turn tags of exactly the verdicts with *)
(* start_frame <= f <= end_frame and a turn tag other than None, in        *)
(* verdict order, reduced to first occurrences; with no such verdict it is *)
(* the frame-local tags alone.                                             *)
C10_TagsHandedToResolver ==
    (pc = "af_frames" /\ frame_idx >= 1 /\ Len(previous_points) = frame_idx) =>
        LET cov == Covering(LastPos)
            window_tags == [k \in 1..Cardinality(cov) |->
                               window_results[KthOf(cov, k)].turn_tag]
        IN  /\ action_tags = FirstSeen(LastLocalTags \o window_tags)
            /\ cov = {} => action_tags = LastLocalTags

(* A frame covered by two verdicts that carry the same tag. *)
C10_Witness ==
    /\ pc = "af_frames" /\ frame_idx >= 1
    /\ Cardinality(Covering(LastPos)) = 2
    /\ action_tags = <<"moving", TAG_RIGHT>>

(* A frame past the last window: covered by no verdict. *)
C10_UncoveredFrame ==
    /\ pc = "af_frames" /\ frame_idx >= 1
    /\ window_results # <<>>
    /\ \A k \in 1..Len(window_results) :
          window_results[k].end_frame < LastPos

(* ---- Windows without a classification ---- *)

(* The values of range(0, n - w + 1, s). *)
WindowStarts(n, w, s) == {k * s : k \in 0..(RangeLen(n, w, s) - 1)}

AllTurnPairs ==
    {<<"RI", "RII">>, <<"RII", "RIII">>, <<"RIII", "RIV">>, <<"RIV", "RI">>,
     <<"RV", "RI">>,
     <<"RI", "RIV">>, <<"RIV", "RIII">>, <<"RIII", "RII">>, <<"RII", "RI">>,
     <<"RI", "RIII">>, <<"RIII", "RI">>, <<"RII", "RIV">>, <<"RIV", "RII">>}

(* The window of the track starting at `start` has no stable start zone,   *)
(* no stable end zone, or a zone pair that is in no table.                 *)
Indeterminate(start) ==
    LET fl == find_first_last_zone(
                  Slice(trajectory, start, start + window_size), MIN_FRAMES)
    IN  \/ fl[1] = None
        \/ fl[2] = None
        \/ <<Road(fl[1]), Road(fl[2])>> \notin AllTurnPairs

(* The window tags of frame position f. *)
WindowTagsAt(f) ==
    IF f \in DOMAIN frame_to_window_tags THEN frame_to_window_tags[f] ELSE <<>>

(* C11: once the windows of a non-empty track are evaluated, no exception  *)
(* has been raised, and a frame position holds exactly one window tag per  *)
(* covering window that has both stable zones and a pair in a table; the   *)
(* windows without a stable start or end zone or with a pair in no table   *)
(* add nothing, so a frame covered only by such windows holds no window    *)
(* tag (in particular not the straight tag).                               *)
C11_IndeterminateAddsNoTag ==
    /\ (Len(track_data) > 0) => pc # "af_raised"
    /\ (pc = "af_frames" /\ frame_idx = 0) =>
          LET n == Len(trajectory)
              starts == WindowStarts(n, window_size, SLIDE_STEP)
              determinate == {s \in starts : ~ Indeterminate(s)}
          IN  \A f \in 0..(n - 1) :
                 LET det == {s \in determinate :
                               s <= f /\ f <= s + window_size - 1}
                 IN  /\ Len(WindowTagsAt(f)) = Cardinality(det)
                     /\ det = {} => WindowTagsAt(f) = <<>>

(* A frame covered by a window with a pair in no table (no verdict) and by *)
(* a window without stable zones (a verdict with turn_tag None).           *)
C11_Witness ==
    /\ pc = "af_frames" /\ frame_idx = 0
    /\ Len(window_results) = 1
    /\ window_results[1].start_frame = SLIDE_STEP
    /\ window_results[1].start_zone = None
    /\ window_results[1].turn_tag = None
    /\ Indeterminate(0)
    /\ WindowTagsAt(SLIDE_STEP) = <<>>

-----------------------------------------------------------------------------
(* The module from its import on: the zone table singleton                 *)
(* (cache_manager.create_class_cache('ZonePolygon'), line 224) and calls   *)
(* of the query and tagging routines.                                      *)

MAXSIZE == 512

(* cls.__name__ *)
CacheKey == "ZonePolygon"

(* key in cache *)
CacheHit_never(cache, key) == FALSE
CacheHit(cache, key) == \E k \in 1..Len(cache) : cache[k].key = key

(* cache[key] *)
CacheGet(cache, key) ==
    cache[CHOOSE k \in 1..Len(cache) : cache[k].key = key].instance

(* cache[key] = instance on an OrderedDict: a new key goes last. *)
CachePut(cache, key, instance) ==
    IF \E k \in 1..Len(cache) : cache[k].key = key
      THEN [k \in 1..Len(cache) |->
               IF cache[k].key = key
                 THEN [key |-> key, instance |-> instance] ELSE cache[k]]
      ELSE Append(cache, [key |-> key, instance |-> instance])

(* Lines 54-71: wrapper() on the cache, the stats and the number of        *)
(* instances built; cls() builds instance number b + 1.                    *)
Wrapper(cache, st, b) ==
    IF CacheHit(cache, CacheKey)
      THEN [caches |-> cache, stats |-> [st EXCEPT !.hits = @ + 1],
            built |-> b, instance |-> CacheGet(cache, CacheKey)]
      ELSE LET instance == b + 1
               c1 == CachePut(cache, CacheKey, instance)
               c2 == IF Len(c1) > MAXSIZE THEN Tail(c1) ELSE c1
           IN  [caches |-> c2, stats |-> [st EXCEPT !.misses = @ + 1],
                built |-> b + 1, instance |-> instance]

(* Line 224: ZONE_POLYGON = ZonePolygon().ZONE_POLYGON; the instance holds *)
(* the table get_zone_polygon builds from the map.                         *)
Import ==
    /\ pc = "zp_import"
    /\ LET w == Wrapper(caches, stats, built)
       IN  /\ caches' = w.caches
           /\ stats' = w.stats
           /\ built' = w.built
    /\ zone_table' = map_data
    /\ pc' = "zp_ready"
    /\ UNCHANGED <<mtVars, map_data, calls, trajectory, min_frames, fzLocals, result,
                   tmArgs, tmLocals, afVars>>

MaxCalls == 3

CanCall == pc = "zp_ready" /\ Len(calls) < MaxCalls

Call(op, arg, ret) == [op |-> op, arg |-> arg, ret |-> ret]

zpFrame == <<pc, mtVars, map_data, trajectory, min_frames, fzLocals, result, tmArgs,
             tmLocals, afVars>>

(* A later ZonePolygon() call (the class is importable by other modules).  *)
ZonePolygonCall ==
    /\ CanCall
    /\ LET w == Wrapper(caches, stats, built)
       IN  /\ caches' = w.caches
           /\ stats' = w.stats
           /\ built' = w.built
           /\ calls' = Append(calls, Call("ZonePolygon", <<>>, w.instance))
    /\ UNCHANGED <<zone_table, zpFrame>>

P_INT_2B == <<52, 12>>
P_FAR == <<120, 15>>

ZPPoints == {P_RI_1, P_RI_1_NEAR, P_RI_M1, P_INT_1, P_INT_2B, P_OUT, P_FAR}

(* max_distance: the 3.0 of calculate_action_tags and the default 50.0. *)
ZPMaxDistances == {NEAR_DISTANCE, 50}

(* The table after a query that moves the zone found to the front. *)
MoveToFront(table, name) ==
    SelectSeq(table, LAMBDA e : e.zone_name = name)
    \o SelectSeq(table, LAMBDA e : e.zone_name # name)

GetZoneCall_movetofront ==
    /\ CanCall
    /\ \E p \in ZPPoints :
          /\ calls' = Append(calls, Call("get_zone", p, ZoneIn(zone_table, p, 1)))
          /\ zone_table' = MoveToFront(zone_table, ZoneIn(zone_table, p, 1))
    /\ UNCHANGED <<caches, stats, built, zpFrame>>

(* Lines 226-235. *)
GetZoneCall ==
    /\ CanCall
    /\ \E p \in ZPPoints :
          calls' = Append(calls, Call("get_zone", p, ZoneIn(zone_table, p, 1)))
    /\ UNCHANGED <<caches, stats, built, zone_table, zpFrame>>

(* Lines 237-294. *)
GetDistanceCall ==
    /\ CanCall
    /\ \E p \in ZPPoints, md \in ZPMaxDistances :
          calls' = Append(calls, Call("get_distance_to_intersection", <<p, md>>,
                                      DistanceIn(zone_table, p, md)))
    /\ UNCHANGED <<caches, stats, built, zone_table, zpFrame>>

(* The tagging routines are modelled over the table ZONE_POLYGON. *)
CanTag == CanCall /\ zone_table = ZONE_POLYGON

ZPTrajectories == {<<P_RI_1, P_RI_1, P_OUT>>, <<P_RI_1, P_INT_1, P_RIV_1>>}

FindCall ==
    /\ CanTag
    /\ \E traj \in ZPTrajectories, mf \in 1..2 :
          calls' = Append(calls, Call("find_first_last_zone", <<traj, mf>>,
                                      find_first_last_zone(traj, mf)))
    /\ UNCHANGED <<caches, stats, built, zone_table, zpFrame>>

MatchCall ==
    /\ CanTag
    /\ \E traj \in ZPTrajectories, w \in 2..3 :
          calls' = Append(calls, Call("trajectory_tag_match", <<traj, w>>,
                          trajectory_tag_match(traj, TAG_RIGHT, 8, w, 1, 1)))
    /\ UNCHANGED <<caches, stats, built, zone_table, zpFrame>>

(* Rows of a short track: the positions of a trajectory with heading 0,    *)
(* at 5 m/s.                                                               *)
ZPTrack(traj) ==
    [k \in 1..Len(traj) |->
        [frame |-> FirstFrame + k - 1,
         xCenter |-> traj[k][1], yCenter |-> traj[k][2], heading |-> 0,
         xVelocity |-> 30, yVelocity |-> 40, lonAcceleration |-> 0]]

ActionTagsCall ==
    /\ CanTag
    /\ \E traj \in ZPTrajectories :
          LET pp == [k \in 1..2 |-> <<traj[k][1], traj[k][2], 0>>]
              pz == [k \in 1..2 |-> get_zone(traj[k])]
          IN  calls' = Append(calls, Call("calculate_action_tags", traj,
                  calculate_action_tags(<<traj[3][1], traj[3][2], 0>>, pp,
                                        get_zone(traj[3]), pz, <<30, 40>>)))
    /\ UNCHANGED <<caches, stats, built, zone_table, zpFrame>>

(* Lines 662-707 as a function: the records of the rows k.. of a track. *)
RECURSIVE AnalyzeFrames(_, _, _, _, _, _, _)
AnalyzeFrames(track, tid, ftw, k, pp, pz, out) ==
    IF k > Len(track) THEN out
    ELSE LET row == track[k]
             deduped == FrameTags(row, k - 1, pp, pz, ftw)
         IN  AnalyzeFrames(track, tid, ftw, k + 1,
                 Remember(pp, <<row.xCenter, row.yCenter, row.heading>>),
                 Remember(pz, get_zone(<<row.xCenter, row.yCenter>>)),
                 Append(out, FrameRecord(row, tid, deduped)))

(* The whole call on a non-empty track: the loop over [330, 450] ends      *)
(* after its first pass (line 657).                                        *)
analyze_trajectory_frame_by_frame(track, tid, t) ==
    LET traj == [k \in 1..Len(track) |-> <<track[k].xCenter, track[k].yCenter>>]
        w == Min2(Len(traj), WINDOW_SIZES[1])
        wr == trajectory_tag_match(traj, t, tid, w, SLIDE_STEP, MIN_FRAMES)
    IN  AnalyzeFrames(track, tid, FrameToWindowTags(wr, 1, <<>>), 1,
                      <<>>, <<>>, <<>>)

AnalyzeCall ==
    /\ CanTag
    /\ \E traj \in ZPTrajectories :
          calls' = Append(calls, Call("analyze_trajectory_frame_by_frame", traj,
              analyze_trajectory_frame_by_frame(ZPTrack(traj), 8, TAG_RIGHT)))
    /\ UNCHANGED <<caches, stats, built, zone_table, zpFrame>>

(* Tables the map may yield: ZONE_POLYGON; the same with no drivable area  *)
(* for the intersections (lines 151-153 leave their lists empty); the same *)
(* with RI_-1 ahead of RI_1 in ZONE_MAPPING.                               *)
NoIntTable ==
    [k \in 1..Len(ZONE_POLYGON) |->
        IF StartsWithINT(ZONE_POLYGON[k].zone_name)
          THEN [ZONE_POLYGON[k] EXCEPT !.polygons = <<>>]
          ELSE ZONE_POLYGON[k]]

ReorderedTable == MoveToFront(ZONE_POLYGON, "RI_-1")

Tables == {ZONE_POLYGON, NoIntTable, ReorderedTable}

(* The state after lines 98-100: the cache exists and is empty. *)
InitZP ==
    /\ pc = "zp_import"
    /\ workers = <<>>
    /\ map_data \in Tables
    /\ caches = <<>>
    /\ stats = [hits |-> 0, misses |-> 0]
    /\ built = 0
    /\ zone_table = None
    /\ calls = <<>>
    /\ trajectory = <<>> /\ min_frames = 0
    /\ FZIdle /\ TMIdle /\ AFIdle
    /\ result = None

NextZP ==
    \/ Import
    \/ ZonePolygonCall
    \/ GetZoneCall
    \/ GetDistanceCall
    \/ FindCall
    \/ MatchCall
    \/ ActionTagsCall
    \/ AnalyzeCall

SpecZP == InitZP /\ [][NextZP]_vars

(* ---- Properties of the zone table and its queries ---- *)

CallsOf(op) == {k \in 1..Len(calls) : calls[k].op = op}

(* The entries of the table with a polygon that contains the point. *)
Holders(table, point) ==
    {j \in 1..Len(table) :
        \E h \in 1..Len(table[j].polygons) :
            is_point_in_polygon(point, table[j].polygons[h])}

(* C12: every get_zone call returned the name of the first entry of the    *)
(* zone table, in table order, with a polygon containing the point, and    *)
(* None when no entry has one; calls with the same point returned the same *)
(* zone.                                                                   *)
C12_FirstZoneInOrder ==
    pc = "zp_ready" =>
        /\ \A k \in CallsOf("get_zone") :
              LET holders == Holders(zone_table, calls[k].arg)
              IN  calls[k].ret =
                      IF holders = {} THEN None
                      ELSE zone_table[CHOOSE j \in holders :
                                         \A h \in holders : j <= h].zone_name
        /\ \A k1, k2 \in CallsOf("get_zone") :
              calls[k1].arg = calls[k2].arg => calls[k1].ret = calls[k2].ret

(* Two calls at a point inside the polygons of RI_1 and of RI_-1: both     *)
(* return RI_1, the earlier entry.                                         *)
C12_Witness ==
    /\ pc = "zp_ready" /\ map_data = ZONE_POLYGON
    /\ Cardinality(Holders(zone_table, P_RI_1)) = 2
    /\ \E k1, k2 \in CallsOf("get_zone") :
          /\ k1 < k2
          /\ calls[k1].arg = P_RI_1 /\ calls[k2].arg = P_RI_1
          /\ calls[k1].ret = "RI_1" /\ calls[k2].ret = "RI_1"

(* The polygons of the intersection zones of a table, as index pairs. *)
IntPolys(table) ==
    {jh \in (1..Len(table)) \X (1..2) :
        /\ StartsWithINT(table[jh[1]].zone_name)
        /\ jh[2] <= Len(table[jh[1]].polygons)}

(* Some edge of the polygon is within max_distance of the point. *)
EdgeWithin(point, polygon, max_distance) ==
    \E e \in 1..Len(polygon) :
        LET p1 == polygon[e]
            p2 == polygon[(e % Len(polygon)) + 1]
            d == EdgeDistance(point[1], point[2], p1[1], p1[2], p2[1], p2[2])
        IN  d.num <= max_distance * max_distance * d.den

(* C13: every get_distance_to_intersection call returned 0 for a point     *)
(* inside a polygon of a zone named INT_..., returned None when the table  *)
(* has no such polygon or none of them is within max_distance of the       *)
(* point (zones with other names do not count), and any other result lies  *)
(* between 0 and max_distance.                                             *)
C13_DistanceToIntersection ==
    pc = "zp_ready" =>
        \A k \in CallsOf("get_distance_to_intersection") :
            LET point == calls[k].arg[1]
                max_distance == calls[k].arg[2]
                ret == calls[k].ret
                polys == IntPolys(zone_table)
                poly(jh) == zone_table[jh[1]].polygons[jh[2]]
                inside == \E jh \in polys : is_point_in_polygon(point, poly(jh))
                within == \E jh \in polys :
                             EdgeWithin(point, poly(jh), max_distance)
            IN  /\ inside => (ret # NoDistance /\ ret.num = 0)
                /\ (polys = {} \/ ~ (inside \/ within)) => ret = NoDistance
                /\ ret # NoDistance =>
                      /\ ret.den > 0 /\ ret.num >= 0
                      /\ ret.num <= max_distance * max_distance * ret.den

(* Three calls with max_distance 3: inside INT_1 (0), inside RI_1 at 2 m   *)
(* from INT_1 (2), inside RI_1 at 8 m from INT_1 (None).                   *)
C13_Witness ==
    /\ pc = "zp_ready" /\ map_data = ZONE_POLYGON
    /\ Len(calls) = 3
    /\ \A k \in 1..3 : calls[k].op = "get_distance_to_intersection"
    /\ calls[1].arg = <<P_INT_1, NEAR_DISTANCE>>
    /\ calls[1].ret = Zero
    /\ calls[2].arg = <<P_RI_1_NEAR, NEAR_DISTANCE>>
    /\ calls[2].ret # NoDistance
    /\ calls[2].ret.num = 2 * 2 * calls[2].ret.den
    /\ calls[3].arg = <<P_RI_1, NEAR_DISTANCE>>
    /\ calls[3].ret = NoDistance

(* C14: the import builds the one ZonePolygon instance (one cache miss);   *)
(* every later ZonePolygon() call is a cache hit that returns that         *)
(* instance, and no further instance is ever built.                        *)
C14_BuiltOnce ==
    /\ pc = "zp_import" => built = 0
    /\ pc = "zp_ready" =>
          /\ built = 1
          /\ stats.misses = 1
          /\ stats.hits = Cardinality(CallsOf("ZonePolygon"))
          /\ caches = << [key |-> CacheKey, instance |-> 1] >>
          /\ \A k \in CallsOf("ZonePolygon") : calls[k].ret = 1
          /\ zone_table = map_data

C14_Witness ==
    /\ pc = "zp_ready"
    /\ Cardinality(CallsOf("ZonePolygon")) = 2
    /\ stats = [hits |-> 2, misses |-> 1]
    /\ built = 1

(* C15: once the table is bound, no call of get_zone,                      *)
(* get_distance_to_intersection, find_first_last_zone,                     *)
(* trajectory_tag_match, calculate_action_tags or                          *)
(* analyze_trajectory_frame_by_frame changes it.                           *)
C15_TableReadOnly ==
    [][pc = "zp_ready" => zone_table' = zone_table]_vars

(* A query and two tagging calls have been made on the table. *)
C15_Witness ==
    /\ pc = "zp_ready"
    /\ zone_table = ZONE_POLYGON
    /\ Len(calls) = 3
    /\ calls[1].op = "get_zone"
    /\ calls[2].op = "trajectory_tag_match"
    /\ calls[3].op = "analyze_trajectory_frame_by_frame"

(* ---- The records of analyze_trajectory_frame_by_frame ---- *)

(* The records appended so far are those of the first rows of the track,   *)
(* in order, each with the track id given and the frame number of its row; *)
(* the list returned holds one record per row.                             *)
RecordsMatchRows ==
    /\ Len(results) = frame_idx
    /\ \A k \in 1..Len(results) :
          /\ results[k].trackId = track_id
          /\ results[k].frame = track_data[k].frame
    /\ pc = "af_done" => (result = results /\ Len(result) = Len(track_data))

(* C16: at every step the records match the rows handled so far (one per   *)
(* row, in order, with the track id and the row's frame number, all rows   *)
(* on return), and the records already appended stay as they are.          *)
C16_OneRecordPerRow ==
    [][/\ SubSeq(results', 1, Len(results)) = results
       /\ RecordsMatchRows']_vars

(* A track of 370 rows returned with its 370 records. *)
C16_Witness ==
    /\ pc = "af_done"
    /\ Len(track_data) = 370
    /\ Len(result) = 370
    /\ result[370].frame = FirstFrame + 369
    /\ result[1].frame = FirstFrame

-----------------------------------------------------------------------------
(* calculate_speed_tags and calculate_action_tags on their own: a history  *)
(* of points (with the zone lookups of its points) is given, and one of    *)
(* the two routines is called for a current row.                           *)

ctFrame == <<zpVars, mtVars, trajectory, min_frames, fzLocals, tmArgs, tmLocals,
             ws_k, frame_to_window_tags, frame_idx, previous_points,
             previous_zones, results>>

(* The row handed to a routine. *)
CTRow(point, velocity, lon_acceleration) ==
    [frame |-> FirstFrame,
     xCenter |-> point[1], yCenter |-> point[2], heading |-> 0,
     xVelocity |-> velocity[1], yVelocity |-> velocity[2],
     lonAcceleration |-> lon_acceleration]

(* Speeds 0.4, 0.5, 0.5, 1.9, 2.0, 2.0, 7.9, 8.0, 9.0 m/s. *)
CTVelocities == {<<4, 0>>, <<5, 0>>, <<3, 4>>, <<19, 0>>, <<0, -20>>,
                 <<12, 16>>, <<79, 0>>, <<48, 64>>, <<-90, 0>>}

(* -1.1, -1.0, 0, 1.0, 1.1 m/s^2. *)
CTAccelerations == {-11, -10, 0, 10, 11}

(* Lines 420-446. *)
CalcSpeedTags ==
    /\ pc = "ct_start"
    /\ \E v \in CTVelocities, a \in CTAccelerations :
          /\ track_data' = <<CTRow(P_RI_1, v, a)>>
          /\ result' = calculate_speed_tags(v, a)
    /\ pc' = "ct_speed"
    /\ UNCHANGED <<action_tags, ctFrame>>

(* 3 m from the crossing INT_1, inside RI_1. *)
P_RI_1_AT3 == <<12, 7>>

(* 4 m from INT_1, inside RI_1. *)
P_RI_1_AT4 == <<12, 6>>

(* In no zone, 1.4 m from a corner of INT_1. *)
P_CORNER == <<21, 21>>

CTPoints ==
    {P_INT_1, P_RI_1_NEAR, P_RI_1_AT3, P_RI_1_AT4, P_CORNER, P_RI_1, P_RI_2,
     P_RI_M1, P_OUT}

(* Lines 448-568. *)
CalcActionTags ==
    /\ pc = "ct_start"
    /\ \E p \in CTPoints, v \in {<<4, 0>>, <<5, 0>>} :
          /\ track_data' = <<CTRow(p, v, 0)>>
          /\ action_tags' = calculate_action_tags(<<p[1], p[2], 0>>,
                                previous_points, get_zone(p), previous_zones, v)
    /\ pc' = "ct_action"
    /\ UNCHANGED <<result, ctFrame>>

(* A history of n points at p whose heading is h0 until m steps of dh      *)
(* degrees each, the last of them at position e.                           *)
HeadingHistory(p, n, e, m, dh, h0) ==
    [k \in 1..n |->
        <<p[1], p[2],
          (h0 + dh * Max2(0, Min2(m, k - (e - m)))) % 360>>]

MaxHistory == 150

HeadingHistories ==
    {HeadingHistory(P_OUT, e[1], e[2], m, dh, h0) :
        e \in {<<50, 50>>, <<99, 99>>, <<100, 100>>, <<100, 40>>,
               <<MaxHistory, MaxHistory>>, <<MaxHistory, 55>>,
               <<MaxHistory, 51>>, <<MaxHistory, 40>>},
        m \in {7, 8}, dh \in {-10, -1, 1, 10}, h0 \in {0, 355}}

(* A history of three runs of points, heading 0. *)
LaneHistory(ps, ns) ==
    [k \in 1..(ns[1] + ns[2] + ns[3]) |->
        LET p == IF k <= ns[1] THEN ps[1]
                 ELSE IF k <= ns[1] + ns[2] THEN ps[2] ELSE ps[3]
        IN  <<p[1], p[2], 0>>]

LanePoints == {P_RI_1, P_RI_2, P_RI_M1, P_RII_1, P_OUT}

LaneHistories ==
    {LaneHistory(ps, ns) :
        ps \in LanePoints \X LanePoints \X LanePoints,
        ns \in {<<5, 0, 4>>, <<5, 0, 5>>, <<4, 4, 4>>, <<2, 0, 9>>,
                <<5, 3, 3>>, <<10, 0, 60>>, <<11, 0, 58>>, <<12, 0, 57>>}}

(* Histories with lookups of None between the lookups of a lane, and       *)
(* through the two intersection zones.                                     *)
MixedHistories ==
    { [k \in 1..20 |-> IF k % 2 = 0 THEN <<P_OUT[1], P_OUT[2], 0>>
                       ELSE IF k <= 10 THEN <<P_RI_1[1], P_RI_1[2], 0>>
                       ELSE <<P_RI_2[1], P_RI_2[2], 0>>],
      [k \in 1..24 |-> IF k % 2 = 0 THEN <<P_OUT[1], P_OUT[2], 0>>
                       ELSE IF k <= 12 THEN <<P_RI_1[1], P_RI_1[2], 0>>
                       ELSE <<P_RI_2[1], P_RI_2[2], 0>>],
      LaneHistory(<<P_INT_1, P_INT_1, P_INT_2>>, <<5, 0, 5>>) }

Histories == {<<>>} \cup HeadingHistories \cup LaneHistories \cup MixedHistories

InitCT ==
    /\ ZPImported
    /\ pc = "ct_start"
    /\ workers = <<>>
    /\ previous_points \in Histories
    /\ previous_zones = [k \in 1..Len(previous_points) |->
                            get_zone(<<previous_points[k][1],
                                       previous_points[k][2]>>)]
    /\ trajectory = <<>> /\ min_frames = 0
    /\ FZIdle /\ TMIdle
    /\ result = None
    /\ action_tags = <<>> /\ track_data = <<>> /\ ws_k = 0
    /\ frame_to_window_tags = <<>> /\ frame_idx = 0 /\ results = <<>>

NextCT == CalcSpeedTags \/ CalcActionTags

SpecCT == InitCT /\ [][NextCT]_vars

-----------------------------------------------------------------------------
(* Properties of the tag routines (SpecCT).                                *)

SpeedClasses == {"stopped", "slow", "normal", "fast"}
AccelClasses == {"accelerating", "decelerating", "constant_speed"}

(* The speed class of a row: the squared speed against the squared         *)
(* thresholds 0.5, 2.0, 8.0 m/s (tenths).                                  *)
SpeedClassOf(row) ==
    LET sq == row.xVelocity * row.xVelocity + row.yVelocity * row.yVelocity
    IN  CASE sq < 25 -> "stopped"
          [] 25 <= sq /\ sq < 400 -> "slow"
          [] 400 <= sq /\ sq < 6400 -> "normal"
          [] 6400 <= sq -> "fast"

AccelClassOf(row) ==
    CASE row.lonAcceleration > 10 -> "accelerating"
      [] row.lonAcceleration < -10 -> "decelerating"
      [] -10 <= row.lonAcceleration /\ row.lonAcceleration <= 10 -> "constant_speed"

(* C17: every result of calculate_speed_tags has exactly two tags: first   *)
(* exactly one of stopped (speed < 0.5), slow (0.5 <= speed < 2.0), normal *)
(* (2.0 <= speed < 8.0), fast (speed >= 8.0), then exactly one of          *)
(* accelerating (longitudinal acceleration > 1.0), decelerating (< -1.0),  *)
(* constant_speed (otherwise, 1.0 and -1.0 included).                      *)
C17_SpeedTags ==
    pc = "ct_speed" =>
        /\ Len(result) = 2
        /\ result[1] \in SpeedClasses /\ result[1] = SpeedClassOf(track_data[1])
        /\ result[2] \in AccelClasses /\ result[2] = AccelClassOf(track_data[1])

(* A speed of exactly 8.0 m/s with an acceleration of exactly 1.0 m/s^2. *)
C17_Witness ==
    /\ pc = "ct_speed"
    /\ track_data[1].xVelocity = 48 /\ track_data[1].yVelocity = 64
    /\ track_data[1].lonAcceleration = 10
    /\ result = <<"fast", "constant_speed">>

(* The current point of a calculate_action_tags call. *)
CTPoint == <<track_data[1].xCenter, track_data[1].yCenter>>

HasTag(tags, t) == \E k \in 1..Len(tags) : tags[k] = t

(* The point is in a zone named INT_..., or within 3 m of a polygon of     *)
(* such a zone.                                                            *)
NearAnIntersection(point) ==
    \/ get_zone(point) # None /\ StartsWithINT(get_zone(point))
    \/ \E jh \in IntPolys(ZONE_POLYGON) :
          LET polygon == ZONE_POLYGON[jh[1]].polygons[jh[2]]
          IN  \/ is_point_in_polygon(point, polygon)
              \/ EdgeWithin(point, polygon, 3)

(* A difference of two headings brought into [-180, 180]. *)
Wrapped(d) == IF d > 180 THEN d - 360 ELSE IF d < -180 THEN d + 360 ELSE d

(* The sum of the wrapped differences of consecutive headings. *)
RECURSIVE TurnSum(_)
TurnSum(hs) ==
    IF Len(hs) < 2 THEN 0
    ELSE Wrapped(hs[2] - hs[1]) + TurnSum(Tail(hs))

(* The headings of the most recent 100 history points. *)
RecentHeadings ==
    LET n == Len(previous_points)
        first == IF n > 100 THEN n - 99 ELSE 1
    IN  [k \in 1..(n - first + 1) |-> previous_points[first + k - 1][3]]

C18_ShortHistory ==
    /\ pc = "ct_action"
    /\ CTPoint = P_INT_1
    /\ Len(previous_points) = 50
    /\ TurnSum(RecentHeadings) = 80
    /\ action_tags = <<"moving">>

(* The lookups of the lookback window that are not None: the most recent   *)
(* 60 of the history, then the current one.                                *)
ValidLookups ==
    LET total == Len(previous_zones)
        first == IF total > 60 THEN total - 59 ELSE 1
        window == [k \in 1..(total - first + 1) |->
                      previous_zones[first + k - 1]]
                    \o <<get_zone(CTPoint)>>
    IN  SelectSeq(window, NotNone)

(* The places of a sequence of labels where a label stands 3 times in a   *)
(* row.                                                                    *)
StableRunsOf(w) ==
    {r \in 1..(Len(w) - 2) : w[r] = w[r + 1] /\ w[r] = w[r + 2]}

FirstStable(w) ==
    LET runs == StableRunsOf(w)
    IN  w[CHOOSE r \in runs : \A q \in runs : r <= q]

LastStable(w) ==
    LET runs == StableRunsOf(w)
    IN  w[CHOOSE r \in runs : \A q \in runs : r >= q]

StableRuns == StableRunsOf(ValidLookups)
StableStart == FirstStable(ValidLookups)
StableEnd == LastStable(ValidLookups)

RoadOf(zone_name) == SplitZone(zone_name)[1]
LaneOf(zone_name) == ParseInt(SplitZone(zone_name)[2])

(* A stable start lane and a stable end lane exist, share the road-group   *)
(* token and differ in lane index.                                         *)
LaneChanged ==
    /\ StableRuns # {}
    /\ RoadOf(StableStart) = RoadOf(StableEnd)
    /\ LaneOf(StableStart) # LaneOf(StableEnd)

LaneTagsGiven ==
    [right |-> HasTag(action_tags, "lane_change_right"),
     left |-> HasTag(action_tags, "lane_change_left"),
     generic |-> HasTag(action_tags, "lane_change")]

(* The tags of a lane change from StableStart to StableEnd. *)
LaneTagsOfChange ==
    [right |-> LaneOf(StableEnd) > LaneOf(StableStart),
     left |-> ~ (LaneOf(StableEnd) > LaneOf(StableStart)),
     generic |-> TRUE]

NoLaneTags == [right |-> FALSE, left |-> FALSE, generic |-> FALSE]

C19_FewValidLookups ==
    /\ pc = "ct_action"
    /\ Len(previous_zones) = 11
    /\ Len(ValidLookups) = 7
    /\ LaneChanged
    /\ action_tags = <<"moving">>

-----------------------------------------------------------------------------
(* find_first_last_zone on an empty point sequence (SpecFZ).               *)

(* C20: passing an empty point sequence to find_first_last_zone fails      *)
(* immediately with an error instead of returning a zone pair: once the    *)
(* call has started it has raised IndexError, no point of the loop was     *)
(* consumed and no pair was returned.                                      *)
C20_EmptyTrajectoryRaises ==
    (pc \in {"fz_loop", "fz_done", "fz_raised"} /\ Len(trajectory) = 0) =>
        /\ pc = "fz_raised"
        /\ result = "IndexError"
        /\ i = 0 /\ first_zone = None /\ last_zone = None

C20_Witness ==
    /\ pc = "fz_raised"
    /\ trajectory = <<>>
    /\ result = "IndexError"

-----------------------------------------------------------------------------
(* The rolling history of analyze_trajectory_frame_by_frame, on tracks     *)
(* shorter and longer than the history kept.                               *)

HistoryTracks ==
    {<<>>} \cup LongTracks \cup
    {MkTrack(<<Seg(P_RI_1, 20, 1, <<30, 40>>, 0),
               Seg(P_OUT, 10, 0, <<3, 4>>, 11),
               Seg(P_RI_2, 20, 0, <<0, 4>>, -11)>>)}

InitHistory == InitOn(HistoryTracks)

SpecHistory == InitHistory /\ [][NextAF]_vars

(* The point and the zone lookup of row k of the track. *)
RowPoint(k) == <<track_data[k].xCenter, track_data[k].yCenter, track_data[k].heading>>
RowZone(k) == get_zone(<<track_data[k].xCenter, track_data[k].yCenter>>)

(* C21: both history buffers are empty when the call starts; after each    *)
(* processed frame previous_points and previous_zones have the same        *)
(* length, at most 500, and hold the most recent min(k, 500) of the k      *)
(* processed frames in frame order, the oldest dropped first.              *)
C21_RollingHistory ==
    /\ pc = "af_windows" => previous_points = <<>> /\ previous_zones = <<>>
    /\ pc \in {"af_frames", "af_done"} =>
          LET kept == IF frame_idx < 500 THEN frame_idx ELSE 500
          IN  /\ Len(previous_points) = Len(previous_zones)
              /\ Len(previous_points) <= 500
              /\ Len(previous_points) = kept
              /\ \A j \in 1..kept :
                    /\ previous_points[j] = RowPoint(frame_idx - kept + j)
                    /\ previous_zones[j] = RowZone(frame_idx - kept + j)

(* 510 rows processed: the first 10 are dropped, row 11 is the oldest      *)
(* kept.                                                                   *)
C21_Witness ==
    /\ pc = "af_done"
    /\ frame_idx = 510
    /\ Len(previous_points) = 500 /\ Len(previous_zones) = 500
    /\ previous_points[1] = RowPoint(11) /\ previous_points[1] # RowPoint(1)
    /\ previous_points[500] = RowPoint(510)

-----------------------------------------------------------------------------
(* The window sizes tried by analyze_trajectory_frame_by_frame.            *)

(* The verdicts of trajectory_tag_match with the k-th window size, clamped *)
(* to the trajectory length.                                               *)
VerdictsWithSize(k) ==
    trajectory_tag_match(trajectory, tag, track_id,
                         Min2(Len(trajectory), WINDOW_SIZES[k]), 30, 6)

(* C22: the window sizes 330 and then 450 are tried in sequence, each      *)
(* clamped to the trajectory length; when the attempt with the first size  *)
(* yields no window verdicts, the second size is tried and its verdicts    *)
(* are the ones used for tagging.                                          *)
C22_SecondSizeOnNoVerdicts ==
    pc \in {"af_frames", "af_done"} =>
        IF VerdictsWithSize(1) = <<>>
          THEN /\ ws_k = 2
               /\ window_size = Min2(Len(trajectory), 450)
               /\ window_results = VerdictsWithSize(2)
               /\ frame_to_window_tags = FrameToWindowTags(VerdictsWithSize(2), 1, <<>>)
          ELSE /\ ws_k = 1
               /\ window_size = Min2(Len(trajectory), 330)
               /\ window_results = VerdictsWithSize(1)

(* The 370-row track tagged after the first size alone: no verdicts, no    *)
(* window tag on any row, while the second size gives a right turn.        *)
C22_FallbackSkipped ==
    /\ pc = "af_done"
    /\ Len(trajectory) = 370
    /\ VerdictsWithSize(1) = <<>>
    /\ Len(VerdictsWithSize(2)) = 1 /\ VerdictsWithSize(2)[1].turn_tag = TAG_RIGHT
    /\ ws_k = 1 /\ window_size = 330
    /\ frame_to_window_tags = <<>>
    /\ \A k \in 1..Len(results) : ~ HasTag(results[k].action_tags, TAG_RIGHT)

-----------------------------------------------------------------------------
(* What tag_post_process leaves alone (SpecPost).                          *)

(* a is b with some entries left out, the order kept. *)
RECURSIVE IsSubsequence(_, _)
IsSubsequence(a, b) ==
    IF Len(a) = 0 THEN TRUE
    ELSE IF Len(b) = 0 THEN FALSE
    ELSE IF a[1] = b[1] THEN IsSubsequence(Tail(a), Tail(b))
    ELSE IsSubsequence(a, Tail(b))

IsOtherTag(t) == t \notin AllTurnTags

(* C23: the output of tag_post_process is an order-preserving subsequence  *)
(* of the input from which only turn tags (turning_left, turning_right,    *)
(* and the left and right window tags) can be missing; every other tag is  *)
(* kept, and applying the resolver to its own output changes nothing.      *)
C23_OnlyTurnTagsRemoved ==
    pc = "post_done" =>
        /\ IsSubsequence(result, action_tags)
        /\ SelectSeq(result, IsOtherTag) = SelectSeq(action_tags, IsOtherTag)
        /\ tag_post_process(result) = result

(* A turn tag removed from between tags that stay. *)
C23_Witness ==
    /\ pc = "post_done"
    /\ action_tags = <<"moving", "turning_left", TAG_STRAIGHT, "lane_change">>
    /\ result = <<"moving", TAG_STRAIGHT, "lane_change">>
    /\ tag_post_process(result) = result

-----------------------------------------------------------------------------
(* The target tag of trajectory_tag_match (SpecTM).                        *)

(* A verdict without the two fields that name the target. *)
WithoutTarget(verdict) ==
    [verdict EXCEPT !.match_target = FALSE, !.target_tag = None]

(* The verdicts of the same call made with the target tag t. *)
VerdictsFor(t) ==
    trajectory_tag_match(trajectory, t, track_id, window_size, slide_step,
                         min_frames)

(* The target tags compared: the three turn tags and a tag that names no   *)
(* turn.                                                                   *)
TargetTags == {TAG_RIGHT, TAG_LEFT, TAG_STRAIGHT, "diaotou"}

(* match_target of every verdict is true exactly when its turn_tag is not  *)
(* none and equal to the target tag t.                                     *)
MatchIsEquality(verdicts, t) ==
    \A k \in 1..Len(verdicts) :
        /\ verdicts[k].target_tag = t
        /\ verdicts[k].match_target
              = (verdicts[k].turn_tag # None /\ verdicts[k].turn_tag = t)

(* C24: for the same trajectory and parameters, runs with different target *)
(* tags give verdict lists that agree in every field except target_tag and *)
(* match_target, and match_target is true exactly when turn_tag is not     *)
(* none and equal to the target tag.                                       *)
C24_TargetTagInformational ==
    pc = "tm_done" =>
        /\ MatchIsEquality(result, tag)
        /\ \A t \in TargetTags :
              LET other == VerdictsFor(t)
              IN  /\ MatchIsEquality(other, t)
                  /\ Len(other) = Len(result)
                  /\ \A k \in 1..Len(result) :
                        WithoutTarget(other[k]) = WithoutTarget(result[k])

(* A run with target left on a right turn RI -> RII: the verdict reports   *)
(* the right turn unmatched, the run with target right reports it matched. *)
C24_Witness ==
    /\ pc = "tm_done"
    /\ tag = TAG_LEFT
    /\ Len(result) = 1
    /\ result[1].turn_tag = TAG_RIGHT /\ result[1].match_target = FALSE
    /\ VerdictsFor(TAG_RIGHT)[1].match_target = TRUE
    /\ VerdictsFor(TAG_RIGHT)[1].turn_tag = TAG_RIGHT

-----------------------------------------------------------------------------
(* Several tracks tagged at the same time: each worker runs one call of    *)
(* analyze_trajectory_frame_by_frame and its steps interleave with those   *)
(* of the others; a worker that runs alone from start to return is the     *)
(* serial loop of lines 790-803.  `results` is all_frame_results.          *)

(* Tracks of 12 rows: a lane change RI_1 -> RI_2, a stay in RI_2, a right  *)
(* turn RI_1 -> RII_1.                                                     *)
PoolTracks ==
    {MkTrack(<<Seg(P_RI_1, 6, 0, <<30, 40>>, 0),
               Seg(p2, 3, 0, <<3, 4>>, 11),
               Seg(p2, 3, 0, <<0, 4>>, -11)>>) : p2 \in {P_RI_2, P_RII_1}}
    \cup {MkTrack(<<Seg(P_RI_2, 6, 0, <<30, 40>>, 0),
                    Seg(P_RI_2, 3, 0, <<3, 4>>, 11),
                    Seg(P_RI_2, 3, 0, <<0, 4>>, -11)>>)}

NumWorkers == 2

poolFrame == <<pc, zpVars, trajectory, min_frames, fzLocals, result, tmArgs,
               tmLocals, action_tags, track_data, ws_k, frame_to_window_tags,
               frame_idx, previous_points, previous_zones>>

(* The window pass of lines 636-658 for a track: the dict of window tags. *)
WindowTagsOf(track, tid, t) ==
    LET traj == [k \in 1..Len(track) |-> <<track[k].xCenter, track[k].yCenter>>]
        w == Min2(Len(traj), WINDOW_SIZES[1])
    IN  FrameToWindowTags(
            trajectory_tag_match(traj, t, tid, w, SLIDE_STEP, MIN_FRAMES),
            1, <<>>)

TrackStart_sharedhistory ==
    /\ pc = "pool"
    /\ \E w \in DOMAIN workers :
          /\ workers[w].pc = "start"
          /\ \E o \in DOMAIN workers :
                /\ o # w
                /\ workers' = [workers EXCEPT ![w] =
                      [@ EXCEPT !.pc = "frames",
                                !.previous_points = workers[o].previous_points,
                                !.previous_zones = workers[o].previous_zones,
                                !.frame_to_window_tags =
                                    WindowTagsOf(workers[w].track_data,
                                                 workers[w].track_id, tag)]]
    /\ UNCHANGED <<results, poolFrame>>

(* Lines 629-658 in one worker: its lists are created empty and its        *)
(* window pass is made.                                                    *)
TrackStart ==
    /\ pc = "pool"
    /\ \E w \in DOMAIN workers :
          /\ workers[w].pc = "start"
          /\ workers' = [workers EXCEPT ![w] =
                [@ EXCEPT !.pc = "frames",
                          !.results = <<>>,
                          !.previous_points = <<>>,
                          !.previous_zones = <<>>,
                          !.frame_to_window_tags =
                              WindowTagsOf(workers[w].track_data,
                                                 workers[w].track_id, tag)]]
    /\ UNCHANGED <<results, poolFrame>>

(* Lines 662-707 in one worker: one row of its frame loop. *)
TrackFrame ==
    /\ pc = "pool"
    /\ \E w \in DOMAIN workers :
          /\ workers[w].pc = "frames"
          /\ workers[w].frame_idx < Len(workers[w].track_data)
          /\ LET me == workers[w]
                 row == me.track_data[me.frame_idx + 1]
                 deduped == FrameTags(row, me.frame_idx, me.previous_points,
                                      me.previous_zones, me.frame_to_window_tags)
             IN  workers' = [workers EXCEPT ![w] =
                    [@ EXCEPT
                       !.results = Append(@, FrameRecord(row, me.track_id, deduped)),
                       !.previous_points =
                           Remember(@, <<row.xCenter, row.yCenter, row.heading>>),
                       !.previous_zones =
                           Remember(@, get_zone(<<row.xCenter, row.yCenter>>)),
                       !.frame_idx = @ + 1]]
    /\ UNCHANGED <<results, poolFrame>>

(* Line 713 in one worker, then line 803: all_frame_results.extend. *)
TrackReturn ==
    /\ pc = "pool"
    /\ \E w \in DOMAIN workers :
          /\ workers[w].pc = "frames"
          /\ workers[w].frame_idx = Len(workers[w].track_data)
          /\ workers' = [workers EXCEPT ![w] = [@ EXCEPT !.pc = "done"]]
          /\ results' = results \o workers[w].results
    /\ UNCHANGED poolFrame

InitPool ==
    /\ ZPImported
    /\ pc = "pool"
    /\ \E tracks \in [1..NumWorkers -> PoolTracks] :
          workers = [w \in 1..NumWorkers |->
                        [pc |-> "start", track_id |-> w, track_data |-> tracks[w],
                         frame_to_window_tags |-> <<>>, frame_idx |-> 0,
                         previous_points |-> <<>>, previous_zones |-> <<>>,
                         results |-> <<>>]]
    /\ trajectory = <<>> /\ min_frames = 0
    /\ FZIdle /\ AFIdle
    /\ track_id = 0 /\ tag = TAG_RIGHT /\ window_size = 0 /\ slide_step = 0
    /\ start_idx = 0 /\ start_zone = None /\ end_zone = None
    /\ turn_tag = None /\ match = FALSE
    /\ window_results = <<>> /\ evaluated = <<>>
    /\ result = None

NextPool == TrackStart \/ TrackFrame \/ TrackReturn

SpecPool == InitPool /\ [][NextPool]_vars

(* The records of a worker's track when it is processed alone. *)
Alone(w) ==
    analyze_trajectory_frame_by_frame(workers[w].track_data,
                                      workers[w].track_id, tag)

(* The orders in which the workers can return. *)
Orders ==
    {order \in [1..NumWorkers -> 1..NumWorkers] :
        \A a, b \in 1..NumWorkers : a # b => order[a] # order[b]}

(* The records of the tracks processed alone, one track after the other in *)
(* the given order, from the k-th on.                                      *)
RECURSIVE AloneInOrder(_, _)
AloneInOrder(order, k) ==
    IF k > NumWorkers THEN <<>>
    ELSE Alone(order[k]) \o AloneInOrder(order, k + 1)

(* C25: the records produced for one track depend only on that track's     *)
(* rows and the zone table: with several tracks processed in any order or  *)
(* interleaved by parallel workers, each track gets the records it gets    *)
(* when processed alone, and the zone table is not changed.                *)
C25_TrackIndependence ==
    pc = "pool" =>
        /\ zone_table = ZONE_POLYGON
        /\ \A w \in DOMAIN workers :
              /\ workers[w].pc \in {"frames", "done"} =>
                    workers[w].results
                        = SubSeq(Alone(w), 1, workers[w].frame_idx)
              /\ workers[w].pc = "done" => workers[w].results = Alone(w)
        /\ (\A w \in DOMAIN workers : workers[w].pc = "done") =>
              \E order \in Orders : results = AloneInOrder(order, 1)

(* Two workers half-way through their tracks at the same time, row 11 of   *)
(* each just tagged: the lane change of worker 1 is tagged, worker 2, in   *)
(* RI_2 all along, has no lane-change tag.                                 *)
C25_Witness ==
    /\ pc = "pool"
    /\ workers[1].pc = "frames" /\ workers[1].frame_idx = 11
    /\ workers[2].pc = "frames" /\ workers[2].frame_idx = 11
    /\ workers[1].previous_zones[1] = "RI_1"
    /\ workers[2].previous_zones[1] = "RI_2"
    /\ HasTag(workers[1].results[11].action_tags, "lane_change_right")
    /\ ~ HasTag(workers[2].results[11].action_tags, "lane_change")

-----------------------------------------------------------------------------
(* The cached ZonePolygon() wrapper called by several threads at once.     *)
(* The wrapper takes no lock: a thread can be suspended between any two of *)
(* its statements, and `stats[...] += 1` is a read followed by a write.    *)

NumThreads == 3

raceFrame == <<pc, map_data, zone_table, calls, trajectory, min_frames,
               fzLocals, result, tmArgs, tmLocals, afVars>>

(* The locals of a thread in the wrapper; instances are numbered from 1,   *)
(* 0 stands for no instance yet.                                           *)
Thread(at, tmp, instance, ret) ==
    [pc |-> at, tmp |-> tmp, instance |-> instance, ret |-> ret]

(* Lines 55-59: key = cls.__name__, then `if key in cache`. *)
WrapperCheck ==
    /\ pc = "race"
    /\ \E w \in DOMAIN workers :
          /\ workers[w].pc = "call"
          /\ workers' = [workers EXCEPT ![w].pc =
                IF CacheHit(caches, CacheKey) THEN "hit_read" ELSE "construct"]
    /\ UNCHANGED <<caches, stats, built, raceFrame>>

(* Line 60, first half: stats['hits'] is read. *)
WrapperHitRead ==
    /\ pc = "race"
    /\ \E w \in DOMAIN workers :
          /\ workers[w].pc = "hit_read"
          /\ workers' = [workers EXCEPT ![w].pc = "hit_write",
                                        ![w].tmp = stats.hits]
    /\ UNCHANGED <<caches, stats, built, raceFrame>>

(* Lines 60-62: stats['hits'] is written, cache[key] is returned. *)
WrapperHitReturn ==
    /\ pc = "race"
    /\ \E w \in DOMAIN workers :
          /\ workers[w].pc = "hit_write"
          /\ stats' = [stats EXCEPT !.hits = workers[w].tmp + 1]
          /\ workers' = [workers EXCEPT ![w].pc = "done",
                                        ![w].ret = CacheGet(caches, CacheKey)]
    /\ UNCHANGED <<caches, built, raceFrame>>

(* Line 64: instance = cls(). *)
WrapperConstruct ==
    /\ pc = "race"
    /\ \E w \in DOMAIN workers :
          /\ workers[w].pc = "construct"
          /\ built' = built + 1
          /\ workers' = [workers EXCEPT ![w].pc = "store",
                                        ![w].instance = built + 1]
    /\ UNCHANGED <<caches, stats, raceFrame>>

(* Line 65: cache[key] = instance. *)
WrapperStore ==
    /\ pc = "race"
    /\ \E w \in DOMAIN workers :
          /\ workers[w].pc = "store"
          /\ caches' = CachePut(caches, CacheKey, workers[w].instance)
          /\ workers' = [workers EXCEPT ![w].pc = "miss_read"]
    /\ UNCHANGED <<stats, built, raceFrame>>

(* Line 66, first half: stats['misses'] is read. *)
WrapperMissRead ==
    /\ pc = "race"
    /\ \E w \in DOMAIN workers :
          /\ workers[w].pc = "miss_read"
          /\ workers' = [workers EXCEPT ![w].pc = "miss_write",
                                        ![w].tmp = stats.misses]
    /\ UNCHANGED <<caches, stats, built, raceFrame>>

(* Lines 66-71: stats['misses'] is written, the oldest entry is dropped    *)
(* above maxsize, the instance is returned.                                *)
WrapperMissReturn ==
    /\ pc = "race"
    /\ \E w \in DOMAIN workers :
          /\ workers[w].pc = "miss_write"
          /\ stats' = [stats EXCEPT !.misses = workers[w].tmp + 1]
          /\ caches' = IF Len(caches) > MAXSIZE THEN Tail(caches) ELSE caches
          /\ workers' = [workers EXCEPT ![w].pc = "done",
                                        ![w].ret = workers[w].instance]
    /\ UNCHANGED <<built, raceFrame>>

(* Two or more threads about to call the wrapper on an empty cache: that   *)
(* of a new manager (lines 47-51), or that left by clear_all after the     *)
(* import.                                                                 *)
InitRace ==
    /\ pc = "race"
    /\ \E n \in 2..NumThreads :
          workers = [w \in 1..n |-> Thread("call", 0, 0, 0)]
    /\ map_data = ZONE_POLYGON
    /\ caches = <<>>
    /\ \E b \in {0, 1} :
          /\ built = b
          /\ stats = [hits |-> 0, misses |-> b]
          /\ zone_table = IF b = 1 THEN ZONE_POLYGON ELSE None
    /\ calls = <<>>
    /\ trajectory = <<>> /\ min_frames = 0
    /\ FZIdle /\ TMIdle /\ AFIdle
    /\ result = None

NextRace ==
    \/ WrapperCheck
    \/ WrapperHitRead
    \/ WrapperHitReturn
    \/ WrapperConstruct
    \/ WrapperStore
    \/ WrapperMissRead
    \/ WrapperMissReturn

SpecRace == InitRace /\ [][NextRace]_vars

(* The threads whose call has run the constructor, and those returned. *)
Constructors == {w \in DOMAIN workers : workers[w].instance # 0}
Returned == {w \in DOMAIN workers : workers[w].pc = "done"}

(* C26: when threads call the cached ZonePolygon() wrapper at the same     *)
(* time on an empty cache, the underlying constructor runs at most once    *)
(* and the callers receive the same instance.                              *)
C26_SingletonUnderConcurrentFirstUse ==
    pc = "race" =>
        /\ Cardinality(Constructors) <= 1
        /\ \A a, b \in Returned : workers[a].ret = workers[b].ret

(* Two threads that both found the cache empty: the constructor ran twice  *)
(* and each thread returned its own instance.                              *)
C26_BuiltTwice ==
    /\ pc = "race"
    /\ DOMAIN workers = {1, 2}
    /\ Returned = {1, 2}
    /\ Constructors = {1, 2}
    /\ workers[1].ret # workers[2].ret
    /\ Len(caches) = 1

-----------------------------------------------------------------------------
(* The pair returned by find_first_last_zone (SpecFZ).                     *)

(* C27: for every non-empty point sequence and every min_frames >= 1,      *)
(* find_first_last_zone returns first_zone = none if and only if           *)
(* last_zone = none.                                                       *)
C27_FirstNoneIffLastNone ==
    (pc = "fz_done" /\ Len(trajectory) >= 1 /\ min_frames >= 1) =>
        (result[1] = None <=> result[2] = None)

(* A first stable zone returned beside a last zone of none. *)
C27_LastNoneAfterFirst ==
    /\ pc = "fz_done"
    /\ min_frames = 1
    /\ trajectory = <<P_RIV_1, P_OUT>>
    /\ result = <<"RIV_1", None>>

(* With min_frames >= 2 the two are none together. *)
C27_FromTwoFrames ==
    (pc = "fz_done" /\ Len(trajectory) >= 1 /\ min_frames >= 2) =>
        (result[1] = None <=> result[2] = None)

-----------------------------------------------------------------------------
(* The movement tag of a frame record (SpecAF).                            *)

MovementTags == {"waiting", "moving"}

(* C28: in every emitted frame record the first action tag is exactly one  *)
(* of waiting or moving, no other position holds either of them, and       *)
(* waiting is present exactly when speed_tags contains stopped; neither    *)
(* deduplication nor conflict resolution removes it: the deduplicated      *)
(* list (action_tags) and the resolved list of the record begin with the   *)
(* same tag.  Every record is examined when it is the last one appended.   *)
C28_MovementTagFirst ==
    (pc \in {"af_frames", "af_done"} /\ Len(results) >= 1) =>
        LET record == results[Len(results)]
            tags == record.action_tags
        IN  /\ Len(tags) >= 1
            /\ tags[1] \in MovementTags
            /\ \A j \in 2..Len(tags) : tags[j] \notin MovementTags
            /\ HasTag(tags, "waiting") <=> HasTag(record.speed_tags, "stopped")
            /\ action_tags[1] = tags[1]

(* A row at 0.4 m/s tagged waiting and stopped, with a window tag behind   *)
(* the movement tag; before it a row at exactly 0.5 m/s tagged moving and  *)
(* slow.                                                                   *)
C28_Witness ==
    /\ pc = "af_done"
    /\ Len(results) = 50
    /\ results[50].action_tags = <<"waiting", TAG_RIGHT>>
    /\ results[50].speed_tags[1] = "stopped"
    /\ results[30].action_tags[1] = "moving"
    /\ results[30].speed_tags[1] = "slow"

-----------------------------------------------------------------------------
(* Lane changes between intersection zones (SpecCT).                       *)

IsIntersectionZone(zone_name) == RoadOf(zone_name) = "INT"

(* C29 as stated: lane-change tags are emitted only between two lane zones *)
(* of one road group; when the stable start zone and the stable end zone   *)
(* are intersection zones, none of lane_change, lane_change_left and       *)
(* lane_change_right is emitted.                                           *)
C29_NoLaneChangeBetweenIntersections ==
    (/\ pc = "ct_action"
     /\ StableRuns # {}
     /\ IsIntersectionZone(StableStart)
     /\ IsIntersectionZone(StableEnd)) => LaneTagsGiven = NoLaneTags

(* Five lookups in INT_1 followed by five in INT_2 and the current point   *)
(* in INT_2: tagged as a lane change to the right.                         *)
C29_IntersectionLaneChange ==
    /\ pc = "ct_action"
    /\ Len(previous_zones) = 10
    /\ StableStart = "INT_1" /\ StableEnd = "INT_2"
    /\ action_tags = <<"moving", "lane_change_right", "lane_change">>

-----------------------------------------------------------------------------
(* The cache manager on its own: a serial sequence of ZonePolygon() calls  *)
(* through the wrapper and of cache_manager.clear_all() calls.             *)

MaxCacheOps == 7

CanOperate == pc = "cache" /\ Len(calls) < MaxCacheOps

(* Lines 54-71, called once. *)
CachedCall ==
    /\ CanOperate
    /\ LET w == Wrapper(caches, stats, built)
       IN  /\ caches' = w.caches
           /\ stats' = w.stats
           /\ built' = w.built
           /\ calls' = Append(calls, Call("ZonePolygon", <<>>, w.instance))
    /\ UNCHANGED <<zone_table, zpFrame>>

ClearAll_resetstats ==
    /\ CanOperate
    /\ caches' = <<>>
    /\ stats' = [hits |-> 0, misses |-> 0]
    /\ calls' = Append(calls, Call("clear_all", <<>>, None))
    /\ UNCHANGED <<built, zone_table, zpFrame>>

(* Lines 77-79: cache.clear() on every cache; self.stats is not touched. *)
ClearAll ==
    /\ CanOperate
    /\ caches' = <<>>
    /\ calls' = Append(calls, Call("clear_all", <<>>, None))
    /\ UNCHANGED <<stats, built, zone_table, zpFrame>>

(* Lines 47-51: a manager whose create_class_cache('ZonePolygon') has just *)
(* made an empty OrderedDict and zeroed counters; the decorated class has  *)
(* not been called.                                                        *)
InitCache ==
    /\ pc = "cache"
    /\ workers = <<>>
    /\ map_data = ZONE_POLYGON
    /\ caches = <<>>
    /\ stats = [hits |-> 0, misses |-> 0]
    /\ built = 0
    /\ zone_table = None
    /\ calls = <<>>
    /\ trajectory = <<>> /\ min_frames = 0
    /\ FZIdle /\ TMIdle /\ AFIdle
    /\ result = None

NextCache ==
    \/ CachedCall
    \/ ClearAll

SpecCache == InitCache /\ [][NextCache]_vars

IsWrapperCall(k) == calls[k].op = "ZonePolygon"

WrapperCalls == {k \in 1..Len(calls) : IsWrapperCall(k)}

(* The wrapper calls made on an empty cache: the first operation, or the   *)
(* one right after a clear_all.                                            *)
CallsOnEmptyCache ==
    {k \in WrapperCalls : k = 1 \/ calls[k - 1].op = "clear_all"}

(* C30: over any sequence of wrapper calls and clear_all calls, hits +     *)
(* misses equals the number of wrapper calls, misses equals the number of  *)
(* times the constructor ran, the named cache holds at most one entry, and *)
(* clear_all empties the cache without resetting the counters, so the      *)
(* first call after clear_all constructs a new instance and counts as a    *)
(* miss (every other call returns the instance of the call before it).     *)
C30_CacheBookkeeping ==
    pc = "cache" =>
        /\ stats.hits + stats.misses = Cardinality(WrapperCalls)
        /\ stats.misses = built
        /\ stats.misses = Cardinality(CallsOnEmptyCache)
        /\ Len(caches) <= 1
        /\ \A k \in 1..Len(calls) :
              IF IsWrapperCall(k)
                THEN calls[k].ret =
                        Cardinality({q \in CallsOnEmptyCache : q <= k})
                ELSE k = Len(calls) => caches = <<>>
        /\ (Len(calls) >= 1 /\ IsWrapperCall(Len(calls))) =>
              caches = << [key |-> CacheKey,
                           instance |-> calls[Len(calls)].ret] >>

(* Two calls (a miss and a hit), clear_all, then a call that builds the    *)
(* second instance and is counted as the second miss.                      *)
C30_Witness ==
    /\ pc = "cache"
    /\ Len(calls) = 4
    /\ calls[1] = Call("ZonePolygon", <<>>, 1)
    /\ calls[2] = Call("ZonePolygon", <<>>, 1)
    /\ calls[3] = Call("clear_all", <<>>, None)
    /\ calls[4] = Call("ZonePolygon", <<>>, 2)
    /\ stats = [hits |-> 1, misses |-> 2]
    /\ built = 2
    /\ caches = << [key |-> CacheKey, instance |-> 2] >>

====
